---- MODULE Spec2Model ----
(***************************************************************************)
(* ScholarStack: the retrieval-augmented generation pipeline of the        *)
(* backend (Extractor, Chunker, Embedding Provider, Retriever, Answer      *)
(* Synthesizer, the upload and chat routes) as a state machine.            *)
(*                                                                         *)
(* Text is a sequence of one-character strings.  A database table is a     *)
(* sequence of rows in insertion order.  A score of the vector path is the *)
(* exact rational  sgn(dot) * dot^2 / (normA * normB),  the sign-keeping   *)
(* square of  dot / (sqrt(normA) * sqrt(normB)) : squaring keeps the order *)
(* of two scores and keeps the values -1, 0 and 1.                         *)
(***************************************************************************)
EXTENDS Integers, Sequences, FiniteSets, TLC

VARIABLES
    users,          \* User table: rows [id, email, apiKey]
    projects,       \* Project table: rows [id, userId]
    documents,      \* Document table: rows [id, projectId, filename], with
                    \* [filePath, pageCount, req] when created by an upload
    chunks,         \* DocumentChunk table: rows [id, documentId, content, embedding]
    chatSessions,   \* ChatSession table: rows [id, projectId, title]
    chatMessages,   \* ChatMessage table: rows [sessionId, role, content, citations, req]
    reqs,           \* the handlers of the route: locals and response of each
    nreq,           \* number of requests received so far
    call,           \* a direct call of one pipeline function: its arguments
    result,         \* ... and what it returned or threw
    notes,          \* Note table: rows [id, projectId, content, req]
    usersTwin,      \* User table of a second run that differs in the keys only
    globalPendingHighlights,  \* frontend: the shared list of the highlight hook
    listeners,      \* frontend: the subscribed listeners of the highlight hook
    notebook,       \* frontend: the Notebook component, its state and its ref
    inserted        \* frontend: the highlights inserted into a notebook editor

vars == <<users, projects, documents, chunks, chatSessions, chatMessages,
          reqs, nreq, call, result, notes, usersTwin,
          globalPendingHighlights, listeners, notebook, inserted>>

(***************************************************************************)
(* Bounds of the model.                                                    *)
(***************************************************************************)
MaxChunks == 3
MaxTopK == 3
MaxMarkers == 3
MaxReqs == 2
MaxTextLen == 5
MaxChunkSize == 3
MaxOverlap == 1
MaxSteps == 6
MaxItems == 3
MaxComp == 2
MaxDim == 2
MaxUploads == 2
MaxProjects == 1
MaxNotePosts == 3
MaxNoteDeletes == 1
MaxHighlights == 3
MaxMounts == 2

\* POST /api-key requests of one behaviour.
MaxKeyPosts == 2

(***************************************************************************)
(* Sequences and text.                                                     *)
(***************************************************************************)
Null == <<"<null>">>

Range(s) == {s[i] : i \in 1..Len(s)}

RECURSIVE SelectIdx(_, _, _)
SelectIdx(s, keep, i) ==
    IF i > Len(s) THEN <<>>
    ELSE IF keep[i] THEN <<s[i]>> \o SelectIdx(s, keep, i + 1)
         ELSE SelectIdx(s, keep, i + 1)

\* Array.prototype.filter: the elements s[i] with keep[i], in order.
Filter(s, keep) == SelectIdx(s, keep, 1)

\* Slice with the truncation left out
Slice_NoLimit(s, n) == s

\* Array.prototype.slice(0, n) for an integer n >= 0
Slice(s, n) == SubSeq(s, 1, IF n < Len(s) THEN n ELSE Len(s))

RECURSIVE Flatten(_)
Flatten(ss) == IF ss = <<>> THEN <<>> ELSE Head(ss) \o Flatten(Tail(ss))

\* Truthy comparing with null only: the empty string passes
Truthy_NotNull(s) == s # Null

Truthy(s) == s # Null /\ s # <<>>

LowerChar(c) ==
    CASE c = "A" -> "a"
      [] c = "B" -> "b"
      [] c = "C" -> "c"
      [] c = "S" -> "s"
      [] OTHER -> c

toLowerCase(s) == [i \in 1..Len(s) |-> LowerChar(s[i])]

IsWhitespace(c) == c \in {" ", "\n", "\t"}

RECURSIVE SplitFrom(_, _, _, _)
\* String.prototype.split(/\s+/): a maximal run of whitespace is one
\* separator; a separator at either end leaves an empty element there.
SplitFrom(s, i, cur, acc) ==
    IF i > Len(s) THEN Append(acc, cur)
    ELSE IF IsWhitespace(s[i])
         THEN IF i < Len(s) /\ IsWhitespace(s[i + 1])
              THEN SplitFrom(s, i + 1, cur, acc)
              ELSE SplitFrom(s, i + 1, <<>>, Append(acc, cur))
         ELSE SplitFrom(s, i + 1, Append(cur, s[i]), acc)

splitWhitespace(s) == SplitFrom(s, 1, <<>>, <<>>)

\* String.prototype.includes
includes(text, word) ==
    \E i \in 0..(Len(text) - Len(word)) : SubSeq(text, i + 1, i + Len(word)) = word

startsWith(s, prefix) ==
    /\ Len(s) >= Len(prefix)
    /\ SubSeq(s, 1, Len(prefix)) = prefix

(***************************************************************************)
(* Numbers.  A score is a JavaScript number, an IEEE-754 binary64 value:   *)
(* NaN, or a zero, or (-1)^neg * mant * 2^exp with 2^52 <= mant < 2^53.    *)
(* A mantissa, and every natural number of the arithmetic below, is a      *)
(* sequence of limbs of LimbBits bits, the least significant first.        *)
(* Results are rounded to the nearest number, ties to the even mantissa.   *)
(* Overflow and subnormal results are out of reach of the integers of the  *)
(* model.                                                                  *)
(***************************************************************************)
\* The bits of a limb, and of the mantissa of a binary64 number.
LimbBits == 15

MantissaBits == 53

LimbBase == 2^LimbBits

MantissaLimbs == (MantissaBits \div LimbBits) + 1

BigZero(len) == [i \in 1..len |-> 0]

\* The limbs of an integer 0 <= n < 2^31.
BigOfInt(n, len) ==
    [i \in 1..len |-> IF i > 3 THEN 0 ELSE (n \div LimbBase^(i - 1)) % LimbBase]

RECURSIVE BigAddFrom(_, _, _, _)
BigAddFrom(x, y, i, carry) ==
    IF i > Len(x) THEN <<>>
    ELSE LET s == x[i] + y[i] + carry
         IN <<s % LimbBase>> \o BigAddFrom(x, y, i + 1, s \div LimbBase)

BigAdd(x, y) == BigAddFrom(x, y, 1, 0)

RECURSIVE BigSubFrom(_, _, _, _)
BigSubFrom(x, y, i, borrow) ==
    IF i > Len(x) THEN <<>>
    ELSE LET d == x[i] - y[i] - borrow
         IN IF d < 0
            THEN <<d + LimbBase>> \o BigSubFrom(x, y, i + 1, 1)
            ELSE <<d>> \o BigSubFrom(x, y, i + 1, 0)

\* x - y for x >= y
BigSub(x, y) == BigSubFrom(x, y, 1, 0)

RECURSIVE BigCmpFrom(_, _, _)
BigCmpFrom(x, y, i) ==
    IF i = 0 THEN 0
    ELSE IF x[i] > y[i] THEN 1
    ELSE IF x[i] < y[i] THEN -1
    ELSE BigCmpFrom(x, y, i - 1)

\* 1, 0 or -1 as x is more than, equal to or less than y
BigCmp(x, y) == BigCmpFrom(x, y, Len(x))

RECURSIVE BigTimesFrom(_, _, _, _)
BigTimesFrom(x, k, i, carry) ==
    IF i > Len(x) THEN <<>>
    ELSE LET p == x[i] * k + carry
         IN <<p % LimbBase>> \o BigTimesFrom(x, k, i + 1, p \div LimbBase)

\* x * k for 0 <= k < LimbBase
BigTimes(x, k) == BigTimesFrom(x, k, 1, 0)

\* x * 2^k, in the limbs of x
BigShiftLeft(x, k) ==
    LET q == k \div LimbBits
        b == k % LimbBits
        limb(j) == IF j >= 1 /\ j <= Len(x) THEN x[j] ELSE 0
    IN [i \in 1..Len(x) |->
           ((limb(i - q) * 2^b) % LimbBase)
               + (limb(i - q - 1) \div 2^(LimbBits - b))]

\* x \div 2^k
BigShiftRight(x, k) ==
    LET q == k \div LimbBits
        b == k % LimbBits
        limb(j) == IF j <= Len(x) THEN x[j] ELSE 0
    IN [i \in 1..Len(x) |->
           (limb(i + q) \div 2^b)
               + (limb(i + q + 1) % 2^b) * 2^(LimbBits - b)]

\* x % 2^k
BigLowBits(x, k) ==
    LET q == k \div LimbBits
        b == k % LimbBits
    IN [i \in 1..Len(x) |->
           IF i <= q THEN x[i] ELSE IF i = q + 1 THEN x[i] % 2^b ELSE 0]

BigPow2(k, len) ==
    [i \in 1..len |-> IF i = (k \div LimbBits) + 1 THEN 2^(k % LimbBits) ELSE 0]

RECURSIVE BigMulFrom(_, _, _, _)
BigMulFrom(x, y, i, acc) ==
    IF i > Len(y) THEN acc
    ELSE BigMulFrom(x, y, i + 1,
                    BigAdd(acc, BigZero(i - 1)
                                    \o SubSeq(BigTimes(x, y[i]), 1,
                                              Len(x) - i + 1)))

\* x * y, in twice the limbs
BigMul(x, y) ==
    BigMulFrom(x \o BigZero(Len(y)), y, 1, BigZero(Len(x) + Len(y)))

RECURSIVE BitLength(_)
BitLength(n) == IF n = 0 THEN 0 ELSE 1 + BitLength(n \div 2)

ZeroMantissa == BigZero(MantissaLimbs)

BigOne == BigOfInt(1, MantissaLimbs)

\* 2^52, the least mantissa
LeastMantissa == BigPow2(MantissaBits - 1, MantissaLimbs)

NaN == [nan |-> TRUE, neg |-> FALSE, exp |-> 0, mant |-> ZeroMantissa]

Double(neg, exp, mant) ==
    [nan |-> FALSE, neg |-> neg, exp |-> exp, mant |-> mant]

Zero(neg) == Double(neg, 0, ZeroMantissa)

isZero(x) == ~x.nan /\ x.mant = ZeroMantissa

\* The number of the mantissa, or when `up` of the next mantissa.
roundedNumber(neg, exp, mant, up) ==
    IF ~up THEN Double(neg, exp, mant)
    ELSE LET next == BigAdd(mant, BigOne)
         IN IF next = BigPow2(MantissaBits, MantissaLimbs)
            THEN Double(neg, exp + 1, LeastMantissa)
            ELSE Double(neg, exp, next)

\* The number of an integer, -2^31 < n < 2^31: exact.
integerNumber(n) ==
    IF n = 0 THEN Zero(FALSE)
    ELSE LET abs == IF n < 0 THEN -n ELSE n
             shift == MantissaBits - BitLength(abs)
         IN Double(n < 0, -shift,
                   BigShiftLeft(BigOfInt(abs, MantissaLimbs), shift))

\* The numbers of the integers of one limb's bits, computed once.
SmallNumbers == [n \in (-LimbBits)..LimbBits |-> integerNumber(n)]

numberOf(n) ==
    IF n \in DOMAIN SmallNumbers THEN SmallNumbers[n] ELSE integerNumber(n)

RECURSIVE SqrtFrom(_, _, _, _, _)
\* The square root digit by digit: pair j of the bits of n, then pairs of
\* zeros, are brought down to the remainder, and the root gets a 1 when
\* 4 * root + 1 can be taken from it.
SqrtFrom(n, pairs, j, root, rem) ==
    IF j > MantissaBits THEN [root |-> root, rem |-> rem]
    ELSE LET pair == IF j <= pairs THEN (n \div 4^(pairs - j)) % 4 ELSE 0
             r == BigAdd(BigTimes(rem, 4), BigOfInt(pair, MantissaLimbs))
             t == BigAdd(BigTimes(root, 4), BigOne)
         IN IF BigCmp(r, t) >= 0
            THEN SqrtFrom(n, pairs, j + 1,
                          BigAdd(BigTimes(root, 2), BigOne),
                          BigSub(r, t))
            ELSE SqrtFrom(n, pairs, j + 1, BigTimes(root, 2), r)

\* Math.sqrt of the number of an integer n >= 0: the root of n * 4^k to 53
\* bits, rounded up when the remainder is more than the root (the square
\* root is then past the half).
sqrtDouble(n) ==
    IF n = 0 THEN Zero(FALSE)
    ELSE LET pairs == (BitLength(n) + 1) \div 2
             out == SqrtFrom(n, pairs, 1, ZeroMantissa, ZeroMantissa)
         IN roundedNumber(FALSE, pairs - MantissaBits, out.root,
                          BigCmp(out.rem, out.root) > 0)

\* x * y
mulDouble(x, y) ==
    IF x.nan \/ y.nan THEN NaN
    ELSE IF isZero(x) \/ isZero(y) THEN Zero(x.neg # y.neg)
    ELSE LET product == BigMul(x.mant, y.mant)
             shift == IF BigCmp(product,
                                BigPow2(2 * MantissaBits - 1,
                                        2 * MantissaLimbs)) >= 0
                      THEN MantissaBits
                      ELSE MantissaBits - 1
             mant == SubSeq(BigShiftRight(product, shift), 1, MantissaLimbs)
             half == BigCmp(BigLowBits(product, shift),
                            BigPow2(shift - 1, 2 * MantissaLimbs))
         IN roundedNumber(x.neg # y.neg, x.exp + y.exp + shift, mant,
                          half > 0 \/ (half = 0 /\ mant[1] % 2 = 1))

RECURSIVE DivFrom(_, _, _)
\* Long division: one bit of the quotient for each doubling of the
\* remainder, until the quotient has 53 bits.
DivFrom(divisor, quot, rem) ==
    IF BigCmp(quot, LeastMantissa) >= 0
    THEN [quot |-> quot, rem |-> rem]
    ELSE LET r == BigTimes(rem, 2)
         IN IF BigCmp(r, divisor) >= 0
            THEN DivFrom(divisor,
                         BigAdd(BigTimes(quot, 2), BigOne),
                         BigSub(r, divisor))
            ELSE DivFrom(divisor, BigTimes(quot, 2), r)

\* x / y.  A zero divisor has a zero dividend here (a norm of zero makes
\* the dot product zero), and 0 / 0 is NaN.
divDouble(x, y) ==
    IF x.nan \/ y.nan \/ isZero(y) THEN NaN
    ELSE IF isZero(x) THEN Zero(x.neg # y.neg)
    ELSE LET ahead == BigCmp(x.mant, y.mant) >= 0
             first == IF ahead THEN x.mant ELSE BigTimes(x.mant, 2)
             out == DivFrom(y.mant, BigOne, BigSub(first, y.mant))
             half == BigCmp(BigTimes(out.rem, 2), y.mant)
         IN roundedNumber(x.neg # y.neg,
                          x.exp - y.exp - (IF ahead THEN 0 ELSE 1)
                              - (MantissaBits - 1),
                          out.quot,
                          half > 0 \/ (half = 0 /\ out.quot[1] % 2 = 1))

\* 1, 0 or -1 as a is more than, equal to or less than b; the two zeros
\* are equal.
compareNumbers(a, b) ==
    LET magnitude == IF a.exp # b.exp
                     THEN (IF a.exp > b.exp THEN 1 ELSE -1)
                     ELSE BigCmp(a.mant, b.mant)
    IN IF isZero(a) /\ isZero(b) THEN 0
       ELSE IF isZero(a) THEN (IF b.neg THEN 1 ELSE -1)
       ELSE IF isZero(b) THEN (IF a.neg THEN -1 ELSE 1)
       ELSE IF a.neg # b.neg THEN (IF a.neg THEN -1 ELSE 1)
       ELSE IF a.neg THEN -magnitude ELSE magnitude

\* a - b > 0; a comparison with NaN is false
ScoreGreater(a, b) == ~a.nan /\ ~b.nan /\ compareNumbers(a, b) > 0

ScoreGeq(a, b) == ~a.nan /\ ~b.nan /\ compareNumbers(a, b) >= 0

\* ToNumber of what the comparator (a, b) => b.score - a.score returns for
\* the sort, as 1, 0 or -1: the sort reads NaN as 0.
sortCompare(a, b) ==
    IF a.score.nan \/ b.score.nan THEN 0
    ELSE compareNumbers(b.score, a.score)

Reverse(s) == [i \in 1..Len(s) |-> s[Len(s) + 1 - i]]

RECURSIVE runLengthFrom(_, _, _)
\* The run that starts the array ends before the first element at idx or
\* later whose order to the element before it leaves the run's direction.
runLengthFrom(s, idx, isDescending) ==
    IF idx > Len(s) THEN Len(s)
    ELSE LET order == sortCompare(s[idx], s[idx - 1])
         IN IF (isDescending /\ order >= 0) \/ (~isDescending /\ order < 0)
            THEN idx - 1
            ELSE runLengthFrom(s, idx + 1, isDescending)

\* The run at the start of the array, reversed in place when descending
\* (strictly: order < 0 at every step).
countAndMakeRun(s) ==
    IF Len(s) < 2 THEN [runLength |-> Len(s), array |-> s]
    ELSE LET isDescending == sortCompare(s[2], s[1]) < 0
             runLength == runLengthFrom(s, 3, isDescending)
         IN [runLength |-> runLength,
             array |-> IF isDescending
                       THEN Reverse(SubSeq(s, 1, runLength))
                                \o SubSeq(s, runLength + 1, Len(s))
                       ELSE s]

RECURSIVE binarySearch(_, _, _, _)
\* Where the pivot goes among the sorted elements left..(right - 1):
\* behind the middle one unless the comparator puts it before.
binarySearch(s, pivot, left, right) ==
    IF left >= right THEN left
    ELSE LET mid == left + ((right - left) \div 2)
         IN IF sortCompare(pivot, s[mid]) < 0
            THEN binarySearch(s, pivot, left, mid)
            ELSE binarySearch(s, pivot, mid + 1, right)

RECURSIVE binaryInsertionSort(_, _)
\* The elements from start on are placed one by one among those before.
binaryInsertionSort(s, start) ==
    IF start > Len(s) THEN s
    ELSE LET pivot == s[start]
             left == binarySearch(s, pivot, 1, start)
         IN binaryInsertionSort(SubSeq(s, 1, left - 1) \o <<pivot>>
                                    \o SubSeq(s, left, start - 1)
                                    \o SubSeq(s, start + 1, Len(s)),
                                start + 1)

\* sortByScore with the sort left out
sortByScore_Unsorted(s) == s

\* scores.sort((a, b) => b.score - a.score), as Node's engine sorts an
\* array of fewer than 64 elements: the run that starts the array is
\* found, and the other elements are inserted into it by binary search.
sortByScore(s) ==
    LET made == countAndMakeRun(s)
    IN binaryInsertionSort(made.array, made.runLength + 1)

(***************************************************************************)
(* Embedding Provider: embeddings.ts                                       *)
(***************************************************************************)
OpenAIPrefix == <<"s", "k", "-">>

isOpenAI(apiKey) == startsWith(apiKey, OpenAIPrefix)

\* The vectors of the two backends have different lengths
\* (text-embedding-3-small and gemini-embedding-001), here 2 and 3.
OpenAIVectors == {<<3, 4>>, <<-4, 3>>}
GeminiVectors == {<<1, 2, 2>>, <<2, 1, -2>>}

\* What the backend of the key can answer to one embedding request: a
\* vector, or an error with a message, which may be empty.
BackendAnswers(apiKey, messages) ==
    {[ok |-> FALSE, vec |-> <<>>, message |-> m] : m \in messages}
    \cup
    {[ok |-> TRUE, vec |-> v, message |-> ""] :
        v \in (IF isOpenAI(apiKey) THEN OpenAIVectors ELSE GeminiVectors)}

BackendOutcomes(apiKey) == BackendAnswers(apiKey, {"backend down", ""})

\* The same for the request of generateQueryEmbedding, whose catch does
\* not read the message.
QueryOutcomes(apiKey) == BackendAnswers(apiKey, {"backend down"})

\* `Failed to generate embeddings: ${error.message || 'Unknown error'}`
embeddingsErrorOf(message) ==
    "Failed to generate embeddings: " \o
        (IF message = "" THEN "Unknown error" ELSE message)

generateQueryEmbedding(query, apiKey, outcome) ==
    IF outcome.ok
    THEN [threw |-> FALSE, error |-> "", value |-> outcome.vec]
    ELSE [threw |-> TRUE, error |-> "Failed to generate query embedding",
          value |-> <<>>]

RECURSIVE SumTo(_, _)
SumTo(f, n) == IF n = 0 THEN 0 ELSE f[n] + SumTo(f, n - 1)

Dot(a, b) == SumTo([i \in 1..Len(a) |-> a[i] * b[i]], Len(a))

\* dotProduct / (Math.sqrt(normA) * Math.sqrt(normB))
quotientOf(dotProduct, normA, normB) ==
    divDouble(numberOf(dotProduct),
              mulDouble(sqrtDouble(normA), sqrtDouble(normB)))

\* The embeddings that the tables and the backends of the model hold, and
\* their quotients, computed once.
KnownVectors == OpenAIVectors \cup GeminiVectors \cup {<<4, 3>>}

KnownQuotients ==
    [t \in {<<Dot(p[1], p[2]), Dot(p[1], p[1]), Dot(p[2], p[2])>> :
               p \in {q \in KnownVectors \X KnownVectors :
                         Len(q[1]) = Len(q[2])}}
        |-> quotientOf(t[1], t[2], t[3])]

\* Lines 90-106.  The sums of the loop are integers here, and exact.
cosineSimilarity(a, b) ==
    IF Len(a) # Len(b)
    THEN [threw |-> TRUE, error |-> "Vectors must have the same length",
          value |-> Zero(FALSE)]
    ELSE LET dotProduct == Dot(a, b)
             normA == Dot(a, a)
             normB == Dot(b, b)
             sums == <<dotProduct, normA, normB>>
         IN [threw |-> FALSE, error |-> "",
             value |-> IF sums \in DOMAIN KnownQuotients
                       THEN KnownQuotients[sums]
                       ELSE quotientOf(dotProduct, normA, normB)]

(***************************************************************************)
(* Retriever: findRelevantChunks and keywordSearch                         *)
(***************************************************************************)
\* The embedding column: NULL, or a text that JSON.parse rejects, or the
\* text of a JSON array.
EmbNull == [kind |-> "null", val |-> <<>>]
EmbInvalid == [kind |-> "invalid", val |-> <<>>]
EmbArray(v) == [kind |-> "array", val |-> v]

\* JSON.parse(chunk.embedding || '[]')
parseEmbedding(embedding) ==
    CASE embedding.kind = "null" -> [threw |-> FALSE, value |-> <<>>]
      [] embedding.kind = "invalid" -> [threw |-> TRUE, value |-> <<>>]
      [] OTHER -> [threw |-> FALSE, value |-> embedding.val]

\* hasEmbedding that keeps every chunk
hasEmbedding_Always(chunk) == TRUE

hasEmbedding(chunk) ==
    LET parsed == parseEmbedding(chunk.embedding)
    IN IF parsed.threw THEN FALSE ELSE Len(parsed.value) > 0

\* queryWordsOf without the filter on the word length
queryWordsOf_NoLengthFilter(query) == splitWhitespace(toLowerCase(query))

queryWordsOf(query) ==
    LET words == splitWhitespace(toLowerCase(query))
    IN Filter(words, [i \in 1..Len(words) |-> Len(words[i]) > 2])

matchCountOf(chunk, queryWords) ==
    LET contentLower == toLowerCase(chunk.content)
    IN Cardinality({i \in 1..Len(queryWords) : includes(contentLower, queryWords[i])})

keywordSearch(chunkList, query, topK) ==
    LET queryWords == queryWordsOf(query)
        scores == [i \in 1..Len(chunkList) |->
                      [id |-> chunkList[i].id,
                       documentId |-> chunkList[i].documentId,
                       content |-> chunkList[i].content,
                       score |-> numberOf(matchCountOf(chunkList[i], queryWords))]]
        sorted == sortByScore(scores)
    IN Slice(Filter(sorted, [i \in 1..Len(sorted) |->
                            ScoreGreater(sorted[i].score, Zero(FALSE))]),
             topK)

\* prisma.document.findMany({ where: { projectId }, include: { chunks: true } })
documentsOf(docTable, projectId) ==
    Filter(docTable, [i \in 1..Len(docTable) |-> docTable[i].projectId = projectId])

chunksOfDocument(chunkTable, doc) ==
    Filter(chunkTable,
           [i \in 1..Len(chunkTable) |-> chunkTable[i].documentId = doc.id])

allChunksOf(docTable, chunkTable, projectId) ==
    LET docs == documentsOf(docTable, projectId)
    IN Flatten([i \in 1..Len(docs) |-> chunksOfDocument(chunkTable, docs[i])])

vectorScores(chunksWithEmbeddings, queryEmbedding) ==
    [i \in 1..Len(chunksWithEmbeddings) |->
        LET chunk == chunksWithEmbeddings[i]
            parsed == parseEmbedding(chunk.embedding)
            sim == cosineSimilarity(queryEmbedding, parsed.value)
        IN [id |-> chunk.id, documentId |-> chunk.documentId,
            content |-> chunk.content,
            score |-> IF parsed.threw \/ sim.threw THEN Zero(FALSE)
                      ELSE sim.value]]

\* Lines 150-189, up to the request for the query embedding: the rows of
\* prisma.document.findMany decide whether the call returns at once (no
\* document, or the keyword search) or goes on to score the chunks with
\* embeddings.
loadedChunks(docTable, chunkTable, projectId, query, topK, apiKey) ==
    LET docs == documentsOf(docTable, projectId)
        allChunks == allChunksOf(docTable, chunkTable, projectId)
        chunksWithEmbeddings ==
            Filter(allChunks, [i \in 1..Len(allChunks) |-> hasEmbedding(allChunks[i])])
    IN IF Len(docs) = 0
       THEN [path |-> "empty", value |-> <<>>, chunksWithEmbeddings |-> <<>>]
       ELSE IF ~Truthy(apiKey)
       THEN [path |-> "keyword", value |-> keywordSearch(allChunks, query, topK),
             chunksWithEmbeddings |-> <<>>]
       ELSE IF Len(chunksWithEmbeddings) = 0
       THEN [path |-> "keyword", value |-> keywordSearch(allChunks, query, topK),
             chunksWithEmbeddings |-> <<>>]
       ELSE [path |-> "vector", value |-> <<>>,
             chunksWithEmbeddings |-> chunksWithEmbeddings]

\* Lines 194-217, after the query embedding has arrived
rankedChunks(chunksWithEmbeddings, queryEmbedding, topK) ==
    Slice(sortByScore(vectorScores(chunksWithEmbeddings, queryEmbedding)), topK)

\* The outcome of a call: threw/error, the returned list, and what the call
\* did on the way (the path taken, the number of Embedding Provider calls).
findRelevantChunks(docTable, chunkTable, projectId, query, topK, apiKey, outcome) ==
    LET loaded == loadedChunks(docTable, chunkTable, projectId, query, topK, apiKey)
        Returned(v, p, n) == [threw |-> FALSE, error |-> "", value |-> v,
                              path |-> p, embedCalls |-> n]
    IN IF loaded.path # "vector" THEN Returned(loaded.value, loaded.path, 0)
       ELSE LET queryEmbedding == generateQueryEmbedding(query, apiKey, outcome)
            IN IF queryEmbedding.threw
               THEN [threw |-> TRUE, error |-> queryEmbedding.error,
                     value |-> <<>>, path |-> "vector", embedCalls |-> 1]
               ELSE Returned(rankedChunks(loaded.chunksWithEmbeddings,
                                          queryEmbedding.value, topK),
                             "vector", 1)

(***************************************************************************)
(* Answer Synthesizer: extractCitations and generateChatResponse           *)
(***************************************************************************)
PreviewLen == 200

SourcePrefix == <<"[", "S", "o", "u", "r", "c", "e", " ">>

IsDigit(c) == c \in {"0", "1", "2", "3", "4", "5", "6", "7", "8", "9"}

DigitVal(c) ==
    CASE c = "0" -> 0 [] c = "1" -> 1 [] c = "2" -> 2 [] c = "3" -> 3
      [] c = "4" -> 4 [] c = "5" -> 5 [] c = "6" -> 6 [] c = "7" -> 7
      [] c = "8" -> 8 [] OTHER -> 9

RECURSIVE parseInt(_)
\* parseInt of a non-empty run of decimal digits
parseInt(digits) ==
    IF digits = <<>> THEN 0
    ELSE 10 * parseInt(SubSeq(digits, 1, Len(digits) - 1))
         + DigitVal(digits[Len(digits)])

RECURSIVE DigitsEnd(_, _)
\* the last position of the run of digits that starts at i (i - 1 if none)
DigitsEnd(s, i) ==
    IF i <= Len(s) /\ IsDigit(s[i]) THEN DigitsEnd(s, i + 1) ELSE i - 1

\* /\[Source (\d+)\]/ tried at position i: whether it matches there, the
\* digits it captures and the position of the closing bracket.
matchSourceAt(s, i) ==
    LET from == i + Len(SourcePrefix)
        to == DigitsEnd(s, from)
        ok == /\ from <= Len(s)
              /\ SubSeq(s, i, from - 1) = SourcePrefix
              /\ to >= from
              /\ to < Len(s)
              /\ s[to + 1] = "]"
    IN [ok |-> ok, digits |-> IF ok THEN SubSeq(s, from, to) ELSE <<>>,
        last |-> to + 1]

\* content.substring(0, 200) + (content.length > 200 ? '...' : '')
previewOf(content) ==
    IF Len(content) > PreviewLen
    THEN SubSeq(content, 1, PreviewLen) \o <<".", ".", ".">>
    ELSE content

citationOf(chunk, docMap) ==
    [chunkId |-> chunk.id,
     documentId |-> chunk.documentId,
     documentName |-> IF chunk.documentId \in DOMAIN docMap
                      THEN docMap[chunk.documentId] ELSE "Unknown Document",
     text |-> previewOf(chunk.content)]

RECURSIVE ExtractFrom_NoDedup(_, _, _, _, _, _)
\* ExtractFrom without the check of seenChunks
ExtractFrom_NoDedup(response, i, chunkList, docMap, seenChunks, citations) ==
    IF i > Len(response) THEN citations
    ELSE LET m == matchSourceAt(response, i)
         IN IF ~m.ok
            THEN ExtractFrom_NoDedup(response, i + 1, chunkList, docMap,
                                     seenChunks, citations)
            ELSE LET sourceIndex == parseInt(m.digits) - 1
                     inRange == sourceIndex >= 0 /\ sourceIndex < Len(chunkList)
                     chunk == chunkList[sourceIndex + 1]
                 IN IF inRange
                    THEN ExtractFrom_NoDedup(response, m.last + 1, chunkList,
                             docMap, seenChunks \cup {chunk.id},
                             Append(citations, citationOf(chunk, docMap)))
                    ELSE ExtractFrom_NoDedup(response, m.last + 1, chunkList,
                                             docMap, seenChunks, citations)

RECURSIVE ExtractFrom(_, _, _, _, _, _)
\* The loop of extractCitations: sourceRegex.exec from position i on.
ExtractFrom(response, i, chunkList, docMap, seenChunks, citations) ==
    IF i > Len(response) THEN citations
    ELSE LET m == matchSourceAt(response, i)
         IN IF ~m.ok
            THEN ExtractFrom(response, i + 1, chunkList, docMap, seenChunks,
                             citations)
            ELSE LET sourceIndex == parseInt(m.digits) - 1
                     inRange == sourceIndex >= 0 /\ sourceIndex < Len(chunkList)
                     chunk == chunkList[sourceIndex + 1]
                 IN IF inRange /\ chunk.id \notin seenChunks
                    THEN ExtractFrom(response, m.last + 1, chunkList, docMap,
                                     seenChunks \cup {chunk.id},
                                     Append(citations, citationOf(chunk, docMap)))
                    ELSE ExtractFrom(response, m.last + 1, chunkList, docMap,
                                     seenChunks, citations)

extractCitations(response, chunkList, docMap) ==
    ExtractFrom(response, 1, chunkList, docMap, {}, <<>>)

\* prisma.document.findMany({ where: { id: { in: relevantChunks.map(c =>
\* c.documentId) } } })
documentsIn(docTable, relevantChunks) ==
    LET wanted == {relevantChunks[i].documentId : i \in 1..Len(relevantChunks)}
    IN Filter(docTable, [i \in 1..Len(docTable) |-> docTable[i].id \in wanted])

\* new Map(documents.map(d => [d.id, d.filename])), read at the documents
\* of the chunks
docMapOf(docTable, relevantChunks) ==
    LET wanted == {relevantChunks[i].documentId : i \in 1..Len(relevantChunks)}
        found == {docTable[i].id : i \in 1..Len(docTable)} \cap wanted
    IN [d \in found |-> (CHOOSE r \in Range(docTable) : r.id = d).filename]

\* generateChatResponse answering with an empty text when the backend fails
generateChatResponse_Swallow(docTable, query, relevantChunks, apiKey, outcome) ==
    IF outcome.ok /\ outcome.content # Null
    THEN [threw |-> FALSE, error |-> "", response |-> outcome.content,
          citations |-> extractCitations(outcome.content, relevantChunks,
                                         docMapOf(docTable, relevantChunks))]
    ELSE [threw |-> FALSE, error |-> "", response |-> <<>>, citations |-> <<>>]

\* The conversation history and the prompt reach the backend only; what
\* the backend answers is the outcome.  docTable holds the rows that the
\* call has read for the names of the documents.
generateChatResponse(docTable, query, relevantChunks, apiKey, outcome) ==
    IF outcome.ok
    THEN LET aiResponse == IF outcome.content = Null THEN <<>> ELSE outcome.content
         IN [threw |-> FALSE, error |-> "", response |-> aiResponse,
             citations |-> extractCitations(aiResponse, relevantChunks,
                                            docMapOf(docTable, relevantChunks))]
    ELSE [threw |-> TRUE, error |-> "Failed to generate AI response",
          response |-> <<>>, citations |-> <<>>]

(***************************************************************************)
(* Inputs of the direct calls.                                             *)
(***************************************************************************)
KeyOpenAI == <<"s", "k", "-", "1">>
KeyGemini == <<"A", "I", "z", "a">>
ApiKeys == {Null, <<>>, KeyOpenAI, KeyGemini}

Queries ==
    { <<"a", "b", "c">>,
      <<" ", "A", "B", "C", " ", " ", "b", "c", "a">>,
      <<"a", "b", " ", "c", "\n">>,
      <<"b", "c", "a", "\t", "b", "c", "a", " ", "c", "c">> }

\* The rows a chunk can be: content and embedding column.
KindEmbeddedA == [content |-> <<"a", "B", "c", "a">>, embedding |-> EmbArray(<<3, 4>>)]
KindEmbeddedB == [content |-> <<"b", "c", " ", "a">>, embedding |-> EmbArray(<<4, 3>>)]
KindNoEmbedding == [content |-> <<"c", "A", "b", "C">>, embedding |-> EmbNull]
KindEmptyArray == [content |-> <<"a", "b", "c">>, embedding |-> EmbArray(<<>>)]
KindInvalidJson == [content |-> <<"B", "C", "A", "b">>, embedding |-> EmbInvalid]
KindOtherLength == [content |-> <<"c", "c">>, embedding |-> EmbArray(<<2, 1, -2>>)]

ChunkKinds ==
    { KindEmbeddedA, KindEmbeddedB, KindNoEmbedding, KindEmptyArray,
      KindInvalidJson, KindOtherLength }

DocRows ==
    << [id |-> "d1", projectId |-> "p1", filename |-> "one.pdf"],
       [id |-> "d2", projectId |-> "p1", filename |-> "two.pdf"],
       [id |-> "d3", projectId |-> "p2", filename |-> "three.pdf"] >>

\* The chunk table that holds the given kinds of rows over a document
\* table: every chunk references a document of the table
\* (DocumentChunk_documentId_fkey).
ChunkTableOf(docTable, kinds) ==
    [i \in 1..Len(kinds) |->
        [id |-> i,
         documentId |-> docTable[((i - 1) % Len(docTable)) + 1].id,
         content |-> kinds[i].content,
         embedding |-> kinds[i].embedding]]

ChunkTables(docTable) ==
    IF docTable = <<>> THEN {<<>>}
    ELSE UNION { { ChunkTableOf(docTable, k) : k \in [1..n -> ChunkKinds] } :
                 n \in 0..MaxChunks }

SourceMarker(digits) == SourcePrefix \o digits \o <<"]">>

Fragments ==
    { SourceMarker(<<"0">>), SourceMarker(<<"1">>), SourceMarker(<<"2">>),
      SourceMarker(<<"7">>), SourceMarker(<<"0", "2">>),
      SourceMarker(<<"1", "2">>), SourceMarker(<<>>),
      SourcePrefix \o <<"1">>,
      <<"[", "s", "o", "u", "r", "c", "e", " ", "1", "]">>,
      <<"a", "b", " ">> }

AnswerTexts ==
    UNION { { Flatten(f) : f \in [1..n -> Fragments] } : n \in 0..MaxMarkers }

\* The list a retrieval returns: chunks with pairwise distinct ids.
RetrievedChunk(i) ==
    [id |-> i,
     documentId |-> DocRows[((i - 1) % Len(DocRows)) + 1].id,
     content |-> <<"c", "h", "u", "n", "k">>,
     score |-> numberOf(1)]

RetrievedLists == { [i \in 1..n |-> RetrievedChunk(i)] : n \in 0..MaxChunks }

DocMaps ==
    { [d \in {DocRows[i].id : i \in 1..n} |->
          (CHOOSE r \in Range(DocRows) : r.id = d).filename] :
      n \in {1, Len(DocRows)} }

TitleLen == 50

ChatQuery == <<"a", "b", "c">>
ChatQueryNoMatch == <<"c", "c", "c">>

\* A query longer than the title of a session.
ChatQueryLong == ChatQuery \o [i \in 1..TitleLen |-> "x"]

\* What the chat backend can answer to one completion request: a failure,
\* or a message whose content is a text or null.
ChatOutcomes ==
    { [ok |-> FALSE, content |-> Null],
      [ok |-> TRUE, content |-> Null],
      [ok |-> TRUE, content |-> SourceMarker(<<"2">>) \o <<"a", "b", " ">>
                                 \o SourceMarker(<<"1">>) \o SourceMarker(<<"2">>)
                                 \o SourceMarker(<<"7">>)] }

ChatBodies ==
    { [projectId |-> b[1], query |-> b[2], sessionId |-> sid] :
        b \in { <<"", ChatQuery>>, <<"p1", <<>> >>, <<"p1", ChatQuery>>,
                <<"p1", ChatQueryNoMatch>>, <<"p2", ChatQuery>>,
                <<"px", ChatQuery>> },
        sid \in {Null} \cup {chatSessions[i].id : i \in 1..Len(chatSessions)} }

ChatChunkTables ==
    { <<>>,
      ChunkTableOf(SubSeq(DocRows, 1, 2),
                   <<KindEmbeddedA, KindNoEmbedding, KindEmbeddedB>>),
      ChunkTableOf(SubSeq(DocRows, 1, 2), <<KindNoEmbedding, KindInvalidJson>>) }

\* A chunk table over the documents of both projects.
ChatChunkTableBoth ==
    ChunkTableOf(DocRows, <<KindEmbeddedA, KindNoEmbedding, KindEmbeddedB>>)

\* Queries of the two projects, with or without the id of a stored session.
SessBodies ==
    { [projectId |-> b[1], query |-> b[2], sessionId |-> sid] :
        b \in { <<"p1", ChatQueryLong>>, <<"p2", ChatQuery>> },
        sid \in {Null} \cup {chatSessions[i].id : i \in 1..Len(chatSessions)} }

\* The Notebook component before it is mounted.
NotebookUnmounted ==
    [mounted |-> FALSE, listener |-> 0, pendingHighlights |-> <<>>,
     processedHighlights |-> {}, effectPending |-> FALSE]

\* The part of the state outside the pipeline, untouched by it: no note,
\* no second run, nothing in the frontend's highlight hand-off.
ElsewhereIdle ==
    /\ notes = <<>>
    /\ usersTwin = <<>>
    /\ globalPendingHighlights = <<>>
    /\ listeners = {}
    /\ notebook = NotebookUnmounted
    /\ inserted = <<>>

DbIdle ==
    /\ ElsewhereIdle
    /\ users = <<>>
    /\ projects = <<>>
    /\ chatSessions = <<>>
    /\ chatMessages = <<>>
    /\ reqs = <<>>
    /\ nreq = 0

(***************************************************************************)
(* SpecRetr: findRelevantChunks called directly on a database.             *)
(***************************************************************************)
InitRetr ==
    /\ DbIdle
    /\ \E n \in 0..Len(DocRows) : documents = SubSeq(DocRows, 1, n)
    /\ chunks \in ChunkTables(documents)
    /\ \E q \in Queries, k \in 0..MaxTopK, key \in ApiKeys :
          call = [fn |-> "findRelevantChunks", projectId |-> "p1",
                  query |-> q, topK |-> k, apiKey |-> key]
    /\ result = [state |-> "pending"]

CallFindRelevantChunks ==
    /\ call.fn = "findRelevantChunks"
    /\ result.state = "pending"
    /\ \E outcome \in QueryOutcomes(call.apiKey) :
          result' = [state |-> "done", outcome |-> outcome,
                     out |-> findRelevantChunks(documents, chunks, call.projectId,
                                                call.query, call.topK,
                                                call.apiKey, outcome)]
    /\ UNCHANGED <<users, projects, documents, chunks, chatSessions,
                   chatMessages, reqs, nreq, call,
                   notes, usersTwin, globalPendingHighlights, listeners,
                   notebook, inserted>>

NextRetr == CallFindRelevantChunks

SpecRetr == InitRetr /\ [][NextRetr]_vars

(***************************************************************************)
(* Chat route: POST /api/chat, one step per await of the handler.          *)
(***************************************************************************)
ChatTopK == 20

Slots == 1..2

CannedResponse == "I couldn't find any relevant information in your documents to answer this question. Please try uploading more documents or rephrasing your question."

NoRes == [status |-> 0, error |-> "", response |-> <<>>, citations |-> <<>>,
          sources |-> <<>>, sessionId |-> Null]

ErrorRes(status, message) == [NoRes EXCEPT !.status = status, !.error = message]

NoCalls == [retriever |-> 0, embedding |-> 0, synthesizer |-> 0]

IdleReq ==
    [id |-> 0, pc |-> "idle", projectId |-> "", query |-> <<>>,
     sessionId |-> Null, projectFound |-> FALSE, apiKey |-> Null,
     relevantChunks |-> <<>>, loaded |-> 0, response |-> <<>>,
     citations |-> <<>>, activeSessionId |-> Null, retrieval |-> "none",
     backendFailed |-> FALSE, rejectedCall |-> "", calls |-> NoCalls,
     chunksWithEmbeddings |-> <<>>, documents |-> <<>>, res |-> NoRes]

\* The message of the error with which the store rejects a call.
StoreError == "store error"

\* The store rejects the call the handler awaits: the error goes through
\* catch (error) { next(error) } to the error middleware, which answers 500
\* with its message.
storeRejected(r, storeCall) ==
    [r EXCEPT !.pc = "done", !.rejectedCall = storeCall,
              !.res = ErrorRes(500, StoreError)]

\* prisma.project.findUnique({ where: { id }, include: { user: true } })
findProject(projectTable, userTable, projectId) ==
    LET hits == {i \in 1..Len(projectTable) : projectTable[i].id = projectId}
    IN IF hits = {} THEN [found |-> FALSE, apiKey |-> Null]
       ELSE LET project == projectTable[CHOOSE i \in hits : TRUE]
                owners == {j \in 1..Len(userTable) :
                              userTable[j].id = project.userId}
            IN [found |-> TRUE,
                apiKey |-> IF owners = {} THEN Null
                           ELSE userTable[CHOOSE j \in owners : TRUE].apiKey]

\* titleOf without the ellipsis
titleOf_NoEllipsis(query) ==
    IF Len(query) > TitleLen THEN SubSeq(query, 1, TitleLen) ELSE query

\* query.substring(0, 50) + (query.length > 50 ? '...' : '')
titleOf(query) ==
    IF Len(query) > TitleLen
    THEN SubSeq(query, 1, TitleLen) \o <<".", ".", ".">>
    ELSE query

\* sourceOf naming the chunk after the one it previews
sourceOf_NextId(chunk) ==
    [chunkId |-> chunk.id + 1, documentId |-> chunk.documentId,
     content |-> SubSeq(chunk.content, 1,
                        IF Len(chunk.content) > PreviewLen THEN PreviewLen
                        ELSE Len(chunk.content)) \o <<".", ".", ".">>]

\* chunk => ({ chunkId, documentId, content: substring(0, 200) + '...' })
sourceOf(chunk) ==
    [chunkId |-> chunk.id, documentId |-> chunk.documentId,
     content |-> SubSeq(chunk.content, 1,
                        IF Len(chunk.content) > PreviewLen THEN PreviewLen
                        ELSE Len(chunk.content)) \o <<".", ".", ".">>]

\* received without the check of the owner's key
received_NoKeyCheck(r, project) ==
    IF r.projectId = "" \/ r.query = <<>>
    THEN [r EXCEPT !.pc = "done",
                   !.res = ErrorRes(400, "Project ID and query are required")]
    ELSE IF ~project.found
    THEN [r EXCEPT !.pc = "done", !.res = ErrorRes(404, "Project not found")]
    ELSE [r EXCEPT !.pc = "retrieve", !.projectFound = TRUE,
                   !.apiKey = project.apiKey]

\* The handler up to its first decision on the project: the body is
\* validated, the project must exist and its owner must have a key.
received(r, project) ==
    IF r.projectId = "" \/ r.query = <<>>
    THEN [r EXCEPT !.pc = "done",
                   !.res = ErrorRes(400, "Project ID and query are required")]
    ELSE IF ~project.found
    THEN [r EXCEPT !.pc = "done", !.res = ErrorRes(404, "Project not found")]
    ELSE IF ~Truthy(project.apiKey)
    THEN [r EXCEPT !.pc = "done", !.projectFound = TRUE,
                   !.apiKey = project.apiKey,
                   !.res = ErrorRes(400, "Please set your API key in settings")]
    ELSE [r EXCEPT !.pc = "retrieve", !.projectFound = TRUE,
                   !.apiKey = project.apiKey]

\* The request arrives: the body is validated, the project and its owner's
\* key are looked up by await prisma.project.findUnique(...).
ChatReceive(slot, body) ==
    /\ reqs[slot].pc \in {"idle", "done"}
    /\ nreq < MaxReqs
    /\ nreq' = nreq + 1
    /\ LET r == [IdleReq EXCEPT !.id = nreq + 1,
                                !.projectId = body.projectId,
                                !.query = body.query,
                                !.sessionId = body.sessionId]
       IN \/ reqs' = [reqs EXCEPT ![slot] =
                 received(r, findProject(projects, users, body.projectId))]
          \/ /\ r.projectId # "" /\ r.query # <<>>
             /\ reqs' = [reqs EXCEPT ![slot] =
                   storeRejected(r, "project.findUnique")]
    /\ UNCHANGED <<users, projects, documents, chunks, chatSessions,
                   chatMessages, call, result,
                   notes, usersTwin, globalPendingHighlights, listeners,
                   notebook, inserted>>

\* await prisma.document.findMany({ include: { chunks: true } }) of
\* findRelevantChunks(projectId, query, 20, apiKey), and what the call does
\* with the rows: it returns, or requests the embedding of the query.
ChatRetrieve(slot) ==
    /\ reqs[slot].pc = "retrieve"
    /\ LET r == [reqs[slot] EXCEPT !.calls.retriever = @ + 1]
           loaded == loadedChunks(documents, chunks, r.projectId, r.query,
                                  ChatTopK, r.apiKey)
           read == [r EXCEPT !.loaded = Len(allChunksOf(documents, chunks,
                                                        r.projectId))]
       IN \/ reqs' = [reqs EXCEPT ![slot] =
                 IF loaded.path = "vector"
                 THEN [read EXCEPT !.pc = "embedQuery",
                                   !.chunksWithEmbeddings =
                                       loaded.chunksWithEmbeddings]
                 ELSE [read EXCEPT !.pc = "listDocuments",
                                   !.retrieval = "returned",
                                   !.relevantChunks = loaded.value]]
          \/ reqs' = [reqs EXCEPT ![slot] =
                 storeRejected([r EXCEPT !.retrieval = "threw"],
                               "document.findMany chunks")]
    /\ UNCHANGED <<users, projects, documents, chunks, chatSessions,
                   chatMessages, nreq, call, result,
                   notes, usersTwin, globalPendingHighlights, listeners,
                   notebook, inserted>>

\* await generateQueryEmbedding(query, apiKey) of findRelevantChunks, then
\* the scores, the sort and the slice; a failure of the request leaves
\* findRelevantChunks and the handler's try.
ChatEmbedQuery(slot) ==
    /\ reqs[slot].pc = "embedQuery"
    /\ \E outcome \in QueryOutcomes(reqs[slot].apiKey) :
          LET r == [reqs[slot] EXCEPT !.calls.embedding = @ + 1]
              queryEmbedding == generateQueryEmbedding(r.query, r.apiKey, outcome)
          IN reqs' = [reqs EXCEPT ![slot] =
               IF queryEmbedding.threw
               THEN [r EXCEPT !.pc = "done", !.retrieval = "threw",
                              !.res = ErrorRes(500, queryEmbedding.error)]
               ELSE [r EXCEPT !.pc = "listDocuments",
                              !.retrieval = "returned",
                              !.relevantChunks =
                                  rankedChunks(r.chunksWithEmbeddings,
                                               queryEmbedding.value, ChatTopK)]]
    /\ UNCHANGED <<users, projects, documents, chunks, chatSessions,
                   chatMessages, nreq, call, result,
                   notes, usersTwin, globalPendingHighlights, listeners,
                   notebook, inserted>>

\* retrieved without the answer for an empty list
retrieved_NoEmptyCheck(r) == [r EXCEPT !.pc = "generate"]

\* Lines 42-48: an empty list of chunks is answered with the canned text.
retrieved(r) ==
    IF Len(r.relevantChunks) = 0
    THEN [r EXCEPT !.pc = "done",
                   !.res = [NoRes EXCEPT !.status = 200,
                                         !.response = CannedResponse]]
    ELSE [r EXCEPT !.pc = "generate"]

\* await prisma.document.findMany({ where: { projectId }, select: {
\* filename: true } }), then the check of the retrieved list.  The names
\* are handed to generateChatResponse, which has no parameter for them.
ChatListDocuments(slot) ==
    /\ reqs[slot].pc = "listDocuments"
    /\ LET r == reqs[slot]
       IN \/ reqs' = [reqs EXCEPT ![slot] = retrieved(r)]
          \/ reqs' = [reqs EXCEPT ![slot] =
                 storeRejected(r, "document.findMany filename")]
    /\ UNCHANGED <<users, projects, documents, chunks, chatSessions,
                   chatMessages, nreq, call, result,
                   notes, usersTwin, globalPendingHighlights, listeners,
                   notebook, inserted>>

\* generateChatResponse(query, relevantChunks, history, apiKey, ...) is
\* called and awaits prisma.document.findMany({ where: { id: { in } } }).
ChatGenerate(slot) ==
    /\ reqs[slot].pc = "generate"
    /\ LET r == [reqs[slot] EXCEPT !.calls.synthesizer = @ + 1]
       IN \/ reqs' = [reqs EXCEPT ![slot] =
                 [r EXCEPT !.pc = "complete",
                           !.documents = documentsIn(documents,
                                                     r.relevantChunks)]]
          \/ reqs' = [reqs EXCEPT ![slot] =
                 storeRejected(r, "document.findMany id")]
    /\ UNCHANGED <<users, projects, documents, chunks, chatSessions,
                   chatMessages, nreq, call, result,
                   notes, usersTwin, globalPendingHighlights, listeners,
                   notebook, inserted>>

\* await openai.chat.completions.create(...) of generateChatResponse, then
\* the citations; back in the handler, the session of the turn.
ChatComplete(slot) ==
    /\ reqs[slot].pc = "complete"
    /\ \E outcome \in ChatOutcomes :
          LET r == reqs[slot]
              gen == generateChatResponse(r.documents, r.query,
                                          r.relevantChunks, r.apiKey, outcome)
          IN reqs' = [reqs EXCEPT ![slot] =
               IF gen.threw
               THEN [r EXCEPT !.pc = "done",
                              !.backendFailed = ~outcome.ok,
                              !.res = ErrorRes(500, gen.error)]
               ELSE [r EXCEPT !.pc = IF Truthy(r.sessionId) THEN "saveUser"
                                     ELSE "createSession",
                              !.backendFailed = ~outcome.ok,
                              !.response = gen.response,
                              !.citations = gen.citations,
                              !.activeSessionId = r.sessionId]]
    /\ UNCHANGED <<users, projects, documents, chunks, chatSessions,
                   chatMessages, nreq, call, result,
                   notes, usersTwin, globalPendingHighlights, listeners,
                   notebook, inserted>>

\* await prisma.chatSession.create(...), when the body named no session
ChatCreateSession(slot) ==
    /\ reqs[slot].pc = "createSession"
    /\ LET r == reqs[slot]
           newSession == [id |-> <<ToString(Len(chatSessions) + 1)>>,
                          projectId |-> r.projectId,
                          title |-> titleOf(r.query), req |-> r.id]
       IN \/ /\ chatSessions' = Append(chatSessions, newSession)
             /\ reqs' = [reqs EXCEPT ![slot] =
                   [r EXCEPT !.pc = "saveUser",
                             !.activeSessionId = newSession.id]]
          \/ /\ chatSessions' = chatSessions
             /\ reqs' = [reqs EXCEPT ![slot] =
                   storeRejected(r, "chatSession.create")]
    /\ UNCHANGED <<users, projects, documents, chunks, chatMessages, nreq,
                   call, result,
                   notes, usersTwin, globalPendingHighlights, listeners,
                   notebook, inserted>>

\* await prisma.chatMessage.create({ role: 'user', ... })
ChatSaveUserMessage(slot) ==
    /\ reqs[slot].pc = "saveUser"
    /\ LET r == reqs[slot]
       IN \/ /\ chatMessages' = Append(chatMessages,
                   [sessionId |-> r.activeSessionId, role |-> "user",
                    content |-> r.query, citations |-> <<>>, req |-> r.id])
             /\ reqs' = [reqs EXCEPT ![slot] =
                   [r EXCEPT !.pc = "saveAssistant"]]
          \/ /\ chatMessages' = chatMessages
             /\ reqs' = [reqs EXCEPT ![slot] =
                   storeRejected(r, "chatMessage.create user")]
    /\ UNCHANGED <<users, projects, documents, chunks, chatSessions, nreq,
                   call, result,
                   notes, usersTwin, globalPendingHighlights, listeners,
                   notebook, inserted>>

\* await prisma.chatMessage.create({ role: 'assistant', ... }); res.json(...)
\* The write can be rejected by the database: the error then goes to the
\* error middleware and the user message stays as it was written.
ChatSaveAssistantMessage(slot) ==
    /\ reqs[slot].pc = "saveAssistant"
    /\ LET r == reqs[slot]
       IN \/ /\ chatMessages' = Append(chatMessages,
                   [sessionId |-> r.activeSessionId, role |-> "assistant",
                    content |-> r.response, citations |-> r.citations,
                    req |-> r.id])
             /\ reqs' = [reqs EXCEPT ![slot] =
                   [r EXCEPT !.pc = "done",
                             !.res = [NoRes EXCEPT
                                        !.status = 200,
                                        !.response = r.response,
                                        !.citations = r.citations,
                                        !.sessionId = r.activeSessionId,
                                        !.sources = [i \in 1..Len(r.relevantChunks) |->
                                                       sourceOf(r.relevantChunks[i])]]]]
          \* the store rejects the write: the create throws, nothing is
          \* undone, catch (error) { next(error) } answers 500 with the
          \* error's message
          \/ /\ chatMessages' = chatMessages
             /\ reqs' = [reqs EXCEPT ![slot] =
                   storeRejected(r, "chatMessage.create assistant")]
    /\ UNCHANGED <<users, projects, documents, chunks, chatSessions, nreq,
                   call, result,
                   notes, usersTwin, globalPendingHighlights, listeners,
                   notebook, inserted>>

(***************************************************************************)
(* Spec: the chat route over a database.                                   *)
(***************************************************************************)
Init ==
    /\ \E key \in {Null, KeyOpenAI} :
          users = << [id |-> "u1", email |-> "demo@scholarstack.local",
                      apiKey |-> key] >>
    /\ projects = << [id |-> "p1", userId |-> "u1"],
                     [id |-> "p2", userId |-> "u1"] >>
    /\ documents = SubSeq(DocRows, 1, 2)
    /\ chunks \in ChatChunkTables
    /\ chatSessions = <<>>
    /\ chatMessages = <<>>
    /\ reqs = [slot \in Slots |-> IdleReq]
    /\ nreq = 0
    /\ call = [fn |-> "none"]
    /\ result = [state |-> "none"]
    /\ ElsewhereIdle

Next ==
    \E slot \in Slots :
        \/ \E body \in ChatBodies : ChatReceive(slot, body)
        \/ ChatRetrieve(slot)
        \/ ChatEmbedQuery(slot)
        \/ ChatListDocuments(slot)
        \/ ChatGenerate(slot)
        \/ ChatComplete(slot)
        \/ ChatCreateSession(slot)
        \/ ChatSaveUserMessage(slot)
        \/ ChatSaveAssistantMessage(slot)

Spec == Init /\ [][Next]_vars

(***************************************************************************)
(* SpecSess: the chat route over two projects with embedded chunks, the    *)
(* owner's key stored.                                                     *)
(***************************************************************************)
InitSess ==
    /\ users = << [id |-> "u1", email |-> "demo@scholarstack.local",
                   apiKey |-> KeyOpenAI] >>
    /\ projects = << [id |-> "p1", userId |-> "u1"],
                     [id |-> "p2", userId |-> "u1"] >>
    /\ documents = DocRows
    /\ chunks = ChatChunkTableBoth
    /\ chatSessions = <<>>
    /\ chatMessages = <<>>
    /\ reqs = [slot \in Slots |-> IdleReq]
    /\ nreq = 0
    /\ call = [fn |-> "none"]
    /\ result = [state |-> "none"]
    /\ ElsewhereIdle

NextSess ==
    \E slot \in Slots :
        \/ \E body \in SessBodies : ChatReceive(slot, body)
        \/ ChatRetrieve(slot)
        \/ ChatEmbedQuery(slot)
        \/ ChatListDocuments(slot)
        \/ ChatGenerate(slot)
        \/ ChatComplete(slot)
        \/ ChatCreateSession(slot)
        \/ ChatSaveUserMessage(slot)
        \/ ChatSaveAssistantMessage(slot)

SpecSess == InitSess /\ [][NextSess]_vars

(***************************************************************************)
(* SpecCite: extractCitations called directly on an answer text and a list *)
(* of retrieved chunks.                                                    *)
(***************************************************************************)
InitCite ==
    /\ DbIdle
    /\ documents = <<>>
    /\ chunks = <<>>
    /\ \E text \in AnswerTexts, list \in RetrievedLists, dm \in DocMaps :
          call = [fn |-> "extractCitations", response |-> text,
                  chunks |-> list, docMap |-> dm]
    /\ result = [state |-> "pending"]

CallExtractCitations ==
    /\ call.fn = "extractCitations"
    /\ result.state = "pending"
    /\ result' = [state |-> "done",
                  out |-> extractCitations(call.response, call.chunks,
                                           call.docMap)]
    /\ UNCHANGED <<users, projects, documents, chunks, chatSessions,
                   chatMessages, reqs, nreq, call,
                   notes, usersTwin, globalPendingHighlights, listeners,
                   notebook, inserted>>

NextCite == CallExtractCitations

SpecCite == InitCite /\ [][NextCite]_vars

(***************************************************************************)
(* Properties of extractCitations (under SpecCite).                        *)
(***************************************************************************)
\* The markers of a text, stated on positions: <<i, j>> when the text has
\* "[Source " at i, then only digits up to j (at least one), then "]".
MarkerSpans(s) ==
    LET starts == {i \in 1..Len(s) :
                      /\ i + Len(SourcePrefix) - 1 <= Len(s)
                      /\ \A k \in 1..Len(SourcePrefix) :
                            s[i + k - 1] = SourcePrefix[k]}
    IN UNION { { <<i, j>> : j \in {j \in (i + Len(SourcePrefix))..(Len(s) - 1) :
                    /\ \A k \in (i + Len(SourcePrefix))..j : IsDigit(s[k])
                    /\ s[j + 1] = "]"} } : i \in starts }

RECURSIVE Pow10(_)
Pow10(n) == IF n = 0 THEN 1 ELSE 10 * Pow10(n - 1)

\* the number N written by the marker, from its digits' place values
MarkerNumber(s, sp) ==
    LET from == sp[1] + Len(SourcePrefix)
    IN SumTo([k \in 1..(sp[2] - from + 1) |->
                 DigitVal(s[from + k - 1]) * Pow10(sp[2] - from + 1 - k)],
             sp[2] - from + 1)

CiteDone == call.fn = "extractCitations" /\ result.state = "done"

\* C1: a [Source N] marker yields a citation only when 1 <= N <= number of
\* retrieved chunks; each referenced chunk yields exactly one citation; the
\* citations are in order of first occurrence in the text; a chunk that is
\* never cited yields none.
C1_Citations ==
    CiteDone =>
        LET spans == MarkerSpans(call.response)
            Number(sp) == MarkerNumber(call.response, sp)
            cited == {N \in 1..Len(call.chunks) : \E sp \in spans : Number(sp) = N}
            First(N) == CHOOSE i \in 1..Len(call.response) :
                           /\ \E sp \in spans : sp[1] = i /\ Number(sp) = N
                           /\ \A sp \in spans : Number(sp) = N => sp[1] >= i
        IN /\ Len(result.out) = Cardinality(cited)
           /\ \A N \in cited :
                 LET k == 1 + Cardinality({M \in cited : First(M) < First(N)})
                 IN /\ result.out[k].chunkId = call.chunks[N].id
                    /\ result.out[k].documentId = call.chunks[N].documentId

\* C1 witness: the text cites one chunk in range twice and a source beyond
\* the list once, and the result is the one citation of that chunk.
C1_Witness ==
    /\ CiteDone
    /\ Len(call.chunks) = MaxChunks
    /\ Cardinality({sp \in MarkerSpans(call.response) :
                       MarkerNumber(call.response, sp) = 2}) = 2
    /\ \E sp \in MarkerSpans(call.response) :
          MarkerNumber(call.response, sp) > Len(call.chunks)
    /\ Len(result.out) = 1
    /\ result.out[1].chunkId = call.chunks[2].id

(***************************************************************************)
(* Properties of the Retriever (under SpecRetr).                           *)
(***************************************************************************)
RetrDone == call.fn = "findRelevantChunks" /\ result.state = "done"

RetrReturned == RetrDone /\ ~result.out.threw

LoadedChunks == allChunksOf(documents, chunks, call.projectId)

StoredVector(c) == c.embedding.kind = "array" /\ c.embedding.val # <<>>

\* C2: findRelevantChunks never returns more than topK results, on the
\* vector path and on the keyword path, for every topK >= 0.
C2_AtMostTopK ==
    RetrReturned => Len(result.out.value) <= call.topK

\* C2 witness: on each path a call returned exactly topK >= 1 results while
\* more chunks than that were candidates (here: the vector path).
C2_Witness ==
    /\ RetrReturned
    /\ result.out.path = "vector"
    /\ call.topK >= 1
    /\ Len(result.out.value) = call.topK
    /\ Cardinality({i \in 1..Len(LoadedChunks) : StoredVector(LoadedChunks[i])})
          > call.topK

\* C3: the returned list is ordered by non-increasing score: the score of
\* every element is >= the score of the element after it, on the vector
\* path and on the keyword path.
C3_NonIncreasing ==
    RetrReturned =>
        \A i \in 1..(Len(result.out.value) - 1) :
            ScoreGeq(result.out.value[i].score, result.out.value[i + 1].score)

\* C3 witness: a vector-path result whose first element scores strictly
\* more than its second although it was loaded after it.
C3_Witness ==
    /\ RetrReturned
    /\ result.out.path = "vector"
    /\ Len(result.out.value) >= 2
    /\ ScoreGreater(result.out.value[1].score, result.out.value[2].score)
    /\ \E i, j \in 1..Len(LoadedChunks) :
          /\ i < j
          /\ LoadedChunks[j].id = result.out.value[1].id
          /\ LoadedChunks[i].id = result.out.value[2].id

\* C4: with no credential, or with no loaded chunk carrying a non-empty
\* embedding, the call returns the keyword-scoring result over all loaded
\* chunks, makes no Embedding Provider call and does not fail.
C4_KeywordFallback ==
    (RetrDone /\ (call.apiKey = Null \/ call.apiKey = <<>>
                  \/ \A i \in 1..Len(LoadedChunks) : ~StoredVector(LoadedChunks[i])))
    => /\ ~result.out.threw
       /\ result.out.embedCalls = 0
       /\ result.out.value = keywordSearch(LoadedChunks, call.query, call.topK)

\* C4 witness: a credential is supplied, chunks are loaded, none of them
\* has an embedding, and the keyword result is not empty.
C4_Witness ==
    /\ RetrDone
    /\ call.apiKey # Null /\ call.apiKey # <<>>
    /\ LoadedChunks # <<>>
    /\ \A i \in 1..Len(LoadedChunks) : ~StoredVector(LoadedChunks[i])
    /\ \E i \in 1..Len(LoadedChunks) : LoadedChunks[i].embedding.kind = "invalid"
    /\ result.out.value # <<>>

\* The words of a query, stated on positions: a word is a maximal run of
\* non-whitespace characters, kept when it is longer than 2 characters.
WordSpans(q) ==
    {sp \in (1..Len(q)) \X (1..Len(q)) :
        /\ sp[1] <= sp[2]
        /\ \A k \in sp[1]..sp[2] : ~IsWhitespace(q[k])
        /\ (sp[1] = 1 \/ IsWhitespace(q[sp[1] - 1]))
        /\ (sp[2] = Len(q) \/ IsWhitespace(q[sp[2] + 1]))}

KeptSpans(q) == {sp \in WordSpans(q) : sp[2] - sp[1] + 1 > 2}

OccursIn(q, sp, content) ==
    \E off \in 0..(Len(content) - (sp[2] - sp[1] + 1)) :
        \A k \in 0..(sp[2] - sp[1]) :
            LowerChar(content[off + 1 + k]) = LowerChar(q[sp[1] + k])

ExpectedScore(q, content) ==
    Cardinality({sp \in KeptSpans(q) : OccursIn(q, sp, content)})

\* C5: on the keyword path a returned chunk's score is the number of query
\* words longer than 2 characters (query lower-cased, split on whitespace)
\* that occur in the lower-cased chunk text, and no returned score is 0.
C5_KeywordScore ==
    (RetrReturned /\ result.out.path = "keyword") =>
        \A i \in 1..Len(result.out.value) :
            LET r == result.out.value[i]
            IN /\ r.score # numberOf(0)
               /\ \E j \in 1..Len(LoadedChunks) :
                     /\ LoadedChunks[j].id = r.id
                     /\ LoadedChunks[j].content = r.content
                     /\ ExpectedScore(call.query, r.content) > 0
                     /\ r.score = numberOf(ExpectedScore(call.query,
                                                        r.content))

\* C5 witness: a keyword result holds a chunk of score 2, and a loaded chunk
\* that contains only a short word of the query is left out although topK
\* had room for it.
C5_Witness ==
    /\ RetrReturned
    /\ result.out.path = "keyword"
    /\ \E i \in 1..Len(result.out.value) : result.out.value[i].score = numberOf(2)
    /\ Len(result.out.value) < call.topK
    /\ \E j \in 1..Len(LoadedChunks) :
          /\ \A i \in 1..Len(result.out.value) :
                result.out.value[i].id # LoadedChunks[j].id
          /\ \E sp \in WordSpans(call.query) \ KeptSpans(call.query) :
                OccursIn(call.query, sp, LoadedChunks[j].content)

\* C6: on the vector path every returned chunk has a non-empty stored
\* embedding; a chunk without one is absent, not present with score 0.
C6_OnlyEmbedded ==
    (RetrReturned /\ result.out.path = "vector") =>
        \A i \in 1..Len(result.out.value) :
            \E j \in 1..Len(LoadedChunks) :
                /\ LoadedChunks[j].id = result.out.value[i].id
                /\ StoredVector(LoadedChunks[j])

\* C6 witness: a vector-path result shorter than topK while a loaded chunk
\* has no embedding.
C6_Witness ==
    /\ RetrReturned
    /\ result.out.path = "vector"
    /\ result.out.value # <<>>
    /\ Len(result.out.value) < call.topK
    /\ \E j \in 1..Len(LoadedChunks) : ~StoredVector(LoadedChunks[j])

\* C10: when the query embedding cannot be generated (credential supplied,
\* embedded chunks exist, the Embedding Provider call fails) the retrieval
\* still returns the keyword-scored result instead of failing.
C10_EmbedFailureFallsBack ==
    (/\ RetrDone
     /\ call.apiKey # Null /\ call.apiKey # <<>>
     /\ \E i \in 1..Len(LoadedChunks) : StoredVector(LoadedChunks[i])
     /\ ~result.outcome.ok)
    => /\ ~result.out.threw
       /\ result.out.value = keywordSearch(LoadedChunks, call.query, call.topK)

(***************************************************************************)
(* Properties of the chat route (under Spec).                              *)
(***************************************************************************)
RowsOf(table, id) == {i \in 1..Len(table) : table[i].req = id}

NothingPersistedBy(r) ==
    RowsOf(chatSessions, r.id) = {} /\ RowsOf(chatMessages, r.id) = {}

\* C7: a Query for a project whose owner has no stored credential fails
\* with the configuration error; the Retriever, the Embedding Provider and
\* the Answer Synthesizer are not invoked and nothing is persisted.
C7_NoCredential ==
    \A slot \in Slots :
        LET r == reqs[slot]
        IN (r.projectFound /\ (r.apiKey = Null \/ r.apiKey = <<>>)) =>
              /\ r.pc = "done"
              /\ r.res = ErrorRes(400, "Please set your API key in settings")
              /\ r.calls = NoCalls
              /\ NothingPersistedBy(r)

\* C7 witness: such a request was answered for a project that has chunks
\* a retrieval would have found.
C7_Witness ==
    \E slot \in Slots :
        /\ reqs[slot].pc = "done"
        /\ reqs[slot].projectFound
        /\ reqs[slot].apiKey = Null
        /\ reqs[slot].res.status = 400
        /\ allChunksOf(documents, chunks, reqs[slot].projectId) # <<>>

\* C8 as it is stated, whatever the store does: a Query whose retrieval
\* yields zero chunks is answered, without error, with the canned text,
\* empty citations and empty sources.
C8_EmptyRetrieval_AnyStore ==
    \A slot \in Slots :
        LET r == reqs[slot]
        IN (r.pc = "done" /\ r.retrieval = "returned" /\ r.relevantChunks = <<>>)
              => /\ r.res.status = 200
                 /\ r.res.error = ""
                 /\ r.res.response = CannedResponse
                 /\ r.res.citations = <<>>
                 /\ r.res.sources = <<>>

\* C8: a Query whose retrieval yields zero chunks (as it does for every
\* project with zero documents or zero chunks) never invokes the Answer
\* Synthesizer and persists nothing; it has no step left but the read of
\* the project's document names, and it ends in one of two ways: with
\* that read answered, without error, in the canned text with empty
\* citations and empty sources; with that read rejected by the store, in
\* 500 and the store's error, and in no other way.
C8_EmptyRetrieval ==
    \A slot \in Slots :
        LET r == reqs[slot]
        IN /\ (r.retrieval = "returned" /\ r.loaded = 0) =>
                 r.relevantChunks = <<>>
           /\ (r.retrieval = "returned" /\ r.relevantChunks = <<>>) =>
                 /\ r.pc \in {"listDocuments", "done"}
                 /\ r.calls.synthesizer = 0
                 /\ NothingPersistedBy(r)
                 /\ r.pc = "done" =>
                       \/ /\ r.rejectedCall = ""
                          /\ r.res.status = 200
                          /\ r.res.error = ""
                          /\ r.res.response = CannedResponse
                          /\ r.res.citations = <<>>
                          /\ r.res.sources = <<>>
                       \/ /\ r.rejectedCall = "document.findMany filename"
                          /\ r.res = ErrorRes(500, StoreError)

\* C8 witness: one request, for a project without documents, was answered
\* with the canned text; another, for a project whose chunks all failed to
\* match, was answered 500 because its read of the document names was
\* rejected.
C8_Witness ==
    \E s1, s2 \in Slots :
        /\ reqs[s1].pc = "done" /\ reqs[s1].retrieval = "returned"
        /\ reqs[s1].relevantChunks = <<>>
        /\ reqs[s1].res.status = 200
        /\ reqs[s1].res.response = CannedResponse
        /\ documentsOf(documents, reqs[s1].projectId) = <<>>
        /\ reqs[s2].pc = "done" /\ reqs[s2].retrieval = "returned"
        /\ reqs[s2].relevantChunks = <<>>
        /\ reqs[s2].loaded > 0
        /\ reqs[s2].rejectedCall = "document.findMany filename"
        /\ reqs[s2].res.status = 500

\* C9: when the chat backend call fails, the request fails with the single
\* generation error and the turn is not persisted: the request adds no
\* session and no message.
C9_GenerationFailure ==
    \A slot \in Slots :
        LET r == reqs[slot]
        IN r.backendFailed =>
              /\ r.pc = "done"
              /\ r.res = ErrorRes(500, "Failed to generate AI response")
              /\ NothingPersistedBy(r)

\* C9 witness: the backend failed for a request that named no session,
\* after another request had persisted its turn.
C9_Witness ==
    \E slot \in Slots :
        /\ reqs[slot].backendFailed
        /\ reqs[slot].pc = "done"
        /\ reqs[slot].sessionId = Null
        /\ reqs[slot].calls.synthesizer = 1
        /\ chatMessages # <<>>

(***************************************************************************)
(* Chunker: chunkText of textChunker.ts.  Positions are the 0-based        *)
(* indices of the source; the character at index i of s is s[i + 1].       *)
(***************************************************************************)
MaxOf(S) == CHOOSE x \in S : \A y \in S : y <= x

MinOf(S) == CHOOSE x \in S : \A y \in S : x <= y

\* String.prototype.replace(/\s+/g, ' '): every maximal run of whitespace
\* becomes one space.
replaceWhitespaceRuns(s) ==
    Filter([i \in 1..Len(s) |-> IF IsWhitespace(s[i]) THEN " " ELSE s[i]],
           [i \in 1..Len(s) |->
               ~(IsWhitespace(s[i]) /\ i > 1 /\ IsWhitespace(s[i - 1]))])

\* String.prototype.replace(/\n+/g, '\n'): every maximal run of newlines
\* becomes one newline.
replaceNewlineRuns(s) ==
    Filter(s, [i \in 1..Len(s) |-> ~(s[i] = "\n" /\ i > 1 /\ s[i - 1] = "\n")])

RECURSIVE trimStart(_)
trimStart(s) ==
    IF s # <<>> /\ IsWhitespace(Head(s)) THEN trimStart(Tail(s)) ELSE s

RECURSIVE trimEnd(_)
trimEnd(s) ==
    IF s # <<>> /\ IsWhitespace(s[Len(s)])
    THEN trimEnd(SubSeq(s, 1, Len(s) - 1))
    ELSE s

\* String.prototype.trim
trim(s) == trimEnd(trimStart(s))

cleanedTextOf(text) == trim(replaceNewlineRuns(replaceWhitespaceRuns(text)))

\* String.prototype.lastIndexOf(c, fromIndex): the last index <= fromIndex
\* where c stands, -1 when there is none; a negative fromIndex counts as 0.
lastIndexOf(s, c, fromIndex) ==
    LET from == IF fromIndex < 0 THEN 0 ELSE fromIndex
        hits == {i \in 0..from : i < Len(s) /\ s[i + 1] = c}
    IN IF hits = {} THEN -1 ELSE MaxOf(hits)

\* String.prototype.substring(a, b): both ends are clamped to 0..length and
\* swapped when a > b.
substring(s, a, b) ==
    LET ca == MinOf({MaxOf({a, 0}), Len(s)})
        cb == MinOf({MaxOf({b, 0}), Len(s)})
    IN SubSeq(s, MinOf({ca, cb}) + 1, MaxOf({ca, cb}))

\* endIndexOf with the cut placed one character after the terminator's
\* successor
endIndexOf_CutLate(cleanedText, currentIndex, maxChunkSize) ==
    LET endIndex == MinOf({currentIndex + maxChunkSize, Len(cleanedText)})
        bestBreak == MaxOf({lastIndexOf(cleanedText, ".", endIndex),
                            lastIndexOf(cleanedText, "?", endIndex),
                            lastIndexOf(cleanedText, "!", endIndex)})
    IN IF endIndex < Len(cleanedText) /\ 2 * bestBreak > 2 * currentIndex + maxChunkSize
       THEN bestBreak + 2
       ELSE endIndex

\* The end of the window that starts at currentIndex: the last sentence
\* terminator at or before the window's end when it lies beyond the middle
\* of the window, else the last newline under the same condition, else the
\* window's end.  "beyond currentIndex + maxChunkSize / 2" is compared
\* doubled, the division of the source being exact.
endIndexOf(cleanedText, currentIndex, maxChunkSize) ==
    LET endIndex == MinOf({currentIndex + maxChunkSize, Len(cleanedText)})
    IN IF endIndex < Len(cleanedText)
       THEN LET sentenceEnd == lastIndexOf(cleanedText, ".", endIndex)
                questionEnd == lastIndexOf(cleanedText, "?", endIndex)
                exclamationEnd == lastIndexOf(cleanedText, "!", endIndex)
                bestBreak == MaxOf({sentenceEnd, questionEnd, exclamationEnd})
            IN IF 2 * bestBreak > 2 * currentIndex + maxChunkSize
               THEN bestBreak + 1
               ELSE LET paragraphBreak == lastIndexOf(cleanedText, "\n", endIndex)
                    IN IF 2 * paragraphBreak > 2 * currentIndex + maxChunkSize
                       THEN paragraphBreak + 1
                       ELSE endIndex
       ELSE endIndex

\* pushChunk keeping empty chunks
pushChunk_KeepEmpty(chunkList, chunk) == Append(chunkList, chunk)

\* if (chunk.length > 0) chunks.push(chunk)
pushChunk(chunkList, chunk) ==
    IF Len(chunk) > 0 THEN Append(chunkList, chunk) ELSE chunkList

\* One pass of the while loop of chunkText.
chunkStep(cleanedText, chunkList, currentIndex, maxChunkSize, overlap) ==
    LET endIndex == endIndexOf(cleanedText, currentIndex, maxChunkSize)
        chunk == trim(substring(cleanedText, currentIndex, endIndex))
    IN [chunks |-> pushChunk(chunkList, chunk),
        currentIndex |-> endIndex - overlap,
        endIndex |-> endIndex]

\* singleChunk returning the text as it was passed
singleChunk_Raw(text, cleanedText) == <<text>>

\* return [cleanedText]
singleChunk(text, cleanedText) == <<cleanedText>>

(***************************************************************************)
(* SpecChunk: chunkText called directly, one step per pass of its loop.    *)
(***************************************************************************)
ChunkAlphabet == {"a", " ", "\n", ".", "?", "!"}

ChunkTexts == UNION {[1..n -> ChunkAlphabet] : n \in 0..MaxTextLen}

InitChunk ==
    /\ DbIdle
    /\ documents = <<>>
    /\ chunks = <<>>
    /\ \E text \in ChunkTexts, size \in 0..MaxChunkSize, ov \in 0..MaxOverlap :
          call = [fn |-> "chunkText", text |-> text, maxChunkSize |-> size,
                  overlap |-> ov]
    /\ result = [state |-> "pending"]

\* Lines 11-22: normalization, the single-chunk return, the loop's locals.
ChunkStart ==
    /\ call.fn = "chunkText"
    /\ result.state = "pending"
    /\ LET cleanedText == cleanedTextOf(call.text)
       IN IF Len(cleanedText) <= call.maxChunkSize
          THEN result' = [state |-> "done", cleanedText |-> cleanedText,
                          chunks |-> singleChunk(call.text, cleanedText),
                          currentIndex |-> 0, endIndex |-> 0, steps |-> 0]
          ELSE result' = [state |-> "loop", cleanedText |-> cleanedText,
                          chunks |-> <<>>, currentIndex |-> 0, endIndex |-> 0,
                          steps |-> 0]
    /\ UNCHANGED <<users, projects, documents, chunks, chatSessions,
                   chatMessages, reqs, nreq, call,
                   notes, usersTwin, globalPendingHighlights, listeners,
                   notebook, inserted>>

\* Lines 24-56: one pass of the loop while currentIndex < cleanedText.length.
ChunkLoop ==
    /\ call.fn = "chunkText"
    /\ result.state = "loop"
    /\ result.currentIndex < Len(result.cleanedText)
    /\ result.steps < MaxSteps
    /\ LET step == chunkStep(result.cleanedText, result.chunks,
                             result.currentIndex, call.maxChunkSize,
                             call.overlap)
       IN result' = [result EXCEPT !.chunks = step.chunks,
                                   !.currentIndex = step.currentIndex,
                                   !.endIndex = step.endIndex,
                                   !.steps = @ + 1]
    /\ UNCHANGED <<users, projects, documents, chunks, chatSessions,
                   chatMessages, reqs, nreq, call,
                   notes, usersTwin, globalPendingHighlights, listeners,
                   notebook, inserted>>

\* Line 58: the loop has ended, the chunks are returned.
ChunkReturn ==
    /\ call.fn = "chunkText"
    /\ result.state = "loop"
    /\ result.currentIndex >= Len(result.cleanedText)
    /\ result' = [result EXCEPT !.state = "done"]
    /\ UNCHANGED <<users, projects, documents, chunks, chatSessions,
                   chatMessages, reqs, nreq, call,
                   notes, usersTwin, globalPendingHighlights, listeners,
                   notebook, inserted>>

NextChunk == ChunkStart \/ ChunkLoop \/ ChunkReturn

SpecChunk == InitChunk /\ [][NextChunk]_vars

(***************************************************************************)
(* Properties of chunkText (under SpecChunk).                              *)
(***************************************************************************)
RECURSIVE JoinSpans(_, _)
JoinSpans(s, spans) ==
    IF spans = {} THEN <<>>
    ELSE LET first == CHOOSE sp \in spans : \A o \in spans : sp[1] <= o[1]
             rest == spans \ {first}
         IN SubSeq(s, first[1], first[2])
            \o (IF rest = {} THEN <<>> ELSE <<" ">> \o JoinSpans(s, rest))

\* The words of the text in order, one space between two of them.
NormalizedOf(text) == JoinSpans(text, WordSpans(text))

ChunkRunning == call.fn = "chunkText" /\ result.state \in {"loop", "done"}

ChunkDone == call.fn = "chunkText" /\ result.state = "done"

\* C11: a text whose whitespace-normalized form is not longer than
\* maxChunkSize comes back as exactly one chunk, the normalized text (its
\* words in order, separated by one space, nothing before or after).
C11_SingleChunk ==
    (ChunkDone /\ Len(NormalizedOf(call.text)) <= call.maxChunkSize)
        => result.chunks = <<NormalizedOf(call.text)>>

\* A text longer than maxChunkSize whose normalized form fits: a newline
\* and a run of whitespace were collapsed, the ends were trimmed.
C11_Witness ==
    /\ ChunkDone
    /\ Len(call.text) > call.maxChunkSize
    /\ Len(NormalizedOf(call.text)) <= call.maxChunkSize
    /\ \E i \in 1..Len(call.text) : call.text[i] = "\n"
    /\ \E i \in 1..Len(result.chunks[1]) : result.chunks[1][i] = " "
    /\ Len(result.chunks) = 1

\* C12: for a text longer than maxChunkSize, every chunk that chunkText
\* collects, and so every chunk it returns, is at most maxChunkSize + 1
\* characters long.
C12_ChunkLength ==
    (ChunkRunning /\ Len(call.text) > call.maxChunkSize)
        => \A i \in 1..Len(result.chunks) :
              Len(result.chunks[i]) <= call.maxChunkSize + 1

\* chunkText returned several chunks, one of them one character longer
\* than maxChunkSize: the cut fell after a terminator at the window's end.
C12_Witness ==
    /\ ChunkDone
    /\ call.maxChunkSize >= 2
    /\ Len(result.cleanedText) > call.maxChunkSize
    /\ Len(result.chunks) >= 2
    /\ \E i \in 1..Len(result.chunks) :
          /\ Len(result.chunks[i]) = call.maxChunkSize + 1
          /\ result.chunks[i][Len(result.chunks[i])] \in {".", "?", "!"}

WithoutShared(chunk, overlap) == SubSeq(chunk, overlap + 1, Len(chunk))

Reconstructed(chunkList, overlap) ==
    IF chunkList = <<>> THEN <<>>
    ELSE Head(chunkList)
         \o Flatten([i \in 1..(Len(chunkList) - 1) |->
                        WithoutShared(chunkList[i + 1], overlap)])

\* C13: for a text longer than maxChunkSize, the returned chunks in order,
\* each without the first overlap characters it shares with its
\* predecessor, concatenate to the normalized text.
C13_Reconstructs ==
    (ChunkDone /\ Len(NormalizedOf(call.text)) > call.maxChunkSize)
        => Reconstructed(result.chunks, call.overlap) = NormalizedOf(call.text)

HasText(chunk) == \E k \in 1..Len(chunk) : ~IsWhitespace(chunk[k])

\* C14 as stated: no returned chunk is empty after trimming, whatever the
\* text and the parameters.
C14_NoEmptyChunk_AnyText ==
    ChunkDone => \A i \in 1..Len(result.chunks) : HasText(result.chunks[i])

\* C14: no chunk that chunkText collects for a text with some
\* non-whitespace character is empty after trimming; for an empty or
\* whitespace-only text the result is the single empty chunk.
C14_NoEmptyChunk ==
    ChunkRunning =>
        IF \E k \in 1..Len(call.text) : ~IsWhitespace(call.text[k])
        THEN \A i \in 1..Len(result.chunks) : HasText(result.chunks[i])
        ELSE result.state = "done" /\ result.chunks = << <<>> >>

\* The loop returned after a pass whose window held only a space: the
\* pass collected nothing.
C14_Witness ==
    /\ ChunkDone
    /\ Len(result.cleanedText) > call.maxChunkSize
    /\ result.steps > Len(result.chunks)
    /\ Len(result.chunks) >= 2

(***************************************************************************)
(* Embedding Provider: generateEmbeddings of embeddings.ts.  outcomes[k]   *)
(* is what the backend answers to the k-th request of the call.            *)
(***************************************************************************)
\* emptyVectors returning no vector at all
emptyVectors_None(texts) == <<>>

\* chunks.map(() => [])
emptyVectors(texts) == [i \in 1..Len(texts) |-> <<>>]

RECURSIVE embedLoop_SkipFailed(_, _, _, _, _, _)
\* embedLoop going on with the next item after a failed request
embedLoop_SkipFailed(texts, apiKey, outcomes, i, embeddings, sent) ==
    IF i > Len(texts)
    THEN [threw |-> FALSE, error |-> "", value |-> embeddings, sent |-> sent]
    ELSE embedLoop_SkipFailed(texts, apiKey, outcomes, i + 1,
            IF outcomes[Len(sent) + 1].ok
            THEN Append(embeddings, outcomes[Len(sent) + 1].vec)
            ELSE embeddings,
            Append(sent, [backend |-> IF isOpenAI(apiKey) THEN "openai"
                                      ELSE "gemini",
                          input |-> <<texts[i]>>]))

RECURSIVE embedLoop(_, _, _, _, _, _)
\* The for loop of either backend from item i on: one request per item,
\* its vector pushed; a rejected request ends in the catch, which throws.
embedLoop(texts, apiKey, outcomes, i, embeddings, sent) ==
    IF i > Len(texts)
    THEN [threw |-> FALSE, error |-> "", value |-> embeddings, sent |-> sent]
    ELSE LET request == [backend |-> IF isOpenAI(apiKey) THEN "openai"
                                     ELSE "gemini",
                         input |-> <<texts[i]>>]
             outcome == outcomes[Len(sent) + 1]
         IN IF outcome.ok
            THEN embedLoop(texts, apiKey, outcomes, i + 1,
                           Append(embeddings, outcome.vec),
                           Append(sent, request))
            ELSE [threw |-> TRUE, error |-> embeddingsErrorOf(outcome.message),
                  value |-> <<>>, sent |-> Append(sent, request)]

generateEmbeddings(texts, apiKey, outcomes) ==
    IF ~Truthy(apiKey)
    THEN [threw |-> FALSE, error |-> "", value |-> emptyVectors(texts),
          sent |-> <<>>]
    ELSE embedLoop(texts, apiKey, outcomes, 1, <<>>, <<>>)

(***************************************************************************)
(* SpecEmbed: generateEmbeddings called directly on a list of texts.       *)
(***************************************************************************)
EmbedTexts == {<<"a">>, <<"b", "c">>}

EmbedBatches == UNION {[1..n -> EmbedTexts] : n \in 0..MaxItems}

InitEmbed ==
    /\ DbIdle
    /\ documents = <<>>
    /\ chunks = <<>>
    /\ \E texts \in EmbedBatches, key \in ApiKeys :
          call = [fn |-> "generateEmbeddings", chunks |-> texts,
                  apiKey |-> key]
    /\ result = [state |-> "pending"]

CallGenerateEmbeddings ==
    /\ call.fn = "generateEmbeddings"
    /\ result.state = "pending"
    /\ \E outcomes \in [1..Len(call.chunks) -> BackendOutcomes(call.apiKey)] :
          result' = [state |-> "done", outcomes |-> outcomes,
                     out |-> generateEmbeddings(call.chunks, call.apiKey,
                                                outcomes)]
    /\ UNCHANGED <<users, projects, documents, chunks, chatSessions,
                   chatMessages, reqs, nreq, call,
                   notes, usersTwin, globalPendingHighlights, listeners,
                   notebook, inserted>>

NextEmbed == CallGenerateEmbeddings

SpecEmbed == InitEmbed /\ [][NextEmbed]_vars

(***************************************************************************)
(* Properties of generateEmbeddings (under SpecEmbed).                     *)
(***************************************************************************)
EmbedDone == call.fn = "generateEmbeddings" /\ result.state = "done"

\* C15: without a credential (none, or the empty string) generateEmbeddings
\* returns one empty vector per input, throws nothing and sends no request
\* to a backend.
C15_NoCredentialEmptyVectors ==
    (EmbedDone /\ (call.apiKey = Null \/ call.apiKey = <<>>))
        => /\ ~result.out.threw
           /\ Len(result.out.value) = Len(call.chunks)
           /\ \A i \in 1..Len(result.out.value) : result.out.value[i] = <<>>
           /\ result.out.sent = <<>>

C15_Witness ==
    /\ EmbedDone
    /\ call.apiKey = Null
    /\ Len(call.chunks) >= 2
    /\ Len(result.out.value) = Len(call.chunks)

FailedRequests == {k \in 1..Len(result.outcomes) : ~result.outcomes[k].ok}

\* C16: with a credential the requests go out one item each, in input
\* order, at most one per item; when a request fails the call throws,
\* returns no vector and sends nothing further; when none fails the result
\* is the backend's vector of every input, in input order.
C16_OneRequestPerItem ==
    (EmbedDone /\ call.apiKey # Null /\ call.apiKey # <<>>)
        => /\ Len(result.out.sent) <= Len(call.chunks)
           /\ \A k \in 1..Len(result.out.sent) :
                 result.out.sent[k].input = <<call.chunks[k]>>
           /\ IF FailedRequests # {}
              THEN /\ result.out.threw
                   /\ result.out.value = <<>>
                   /\ \A k \in FailedRequests : Len(result.out.sent) <= k
                   /\ Len(result.out.sent) \in FailedRequests
              ELSE /\ ~result.out.threw
                   /\ Len(result.out.sent) = Len(call.chunks)
                   /\ result.out.value =
                         [i \in 1..Len(call.chunks) |-> result.outcomes[i].vec]

\* Several different items embedded by one request each, in order, with
\* different vectors.
C16_Witness ==
    /\ EmbedDone
    /\ call.apiKey = KeyGemini
    /\ Len(call.chunks) >= 2
    /\ call.chunks[1] # call.chunks[2]
    /\ ~result.out.threw
    /\ Len(result.out.value) = Len(call.chunks)
    /\ result.out.value[1] # result.out.value[2]
    /\ Len(result.out.sent) = Len(call.chunks)

(***************************************************************************)
(* SpecCos: cosineSimilarity called directly on two vectors.               *)
(***************************************************************************)
CosVectors ==
    { v \in UNION {[1..n -> (-MaxComp)..MaxComp] : n \in 1..MaxDim} :
        \E i \in 1..Len(v) : v[i] # 0 }

InitCos ==
    /\ DbIdle
    /\ documents = <<>>
    /\ chunks = <<>>
    /\ \E a \in CosVectors, b \in CosVectors :
          call = [fn |-> "cosineSimilarity", a |-> a, b |-> b]
    /\ result = [state |-> "pending"]

CallCosineSimilarity ==
    /\ call.fn = "cosineSimilarity"
    /\ result.state = "pending"
    /\ result' = [state |-> "done", out |-> cosineSimilarity(call.a, call.b)]
    /\ UNCHANGED <<users, projects, documents, chunks, chatSessions,
                   chatMessages, reqs, nreq, call,
                   notes, usersTwin, globalPendingHighlights, listeners,
                   notebook, inserted>>

NextCos == CallCosineSimilarity

SpecCos == InitCos /\ [][NextCos]_vars

(***************************************************************************)
(* Properties of cosineSimilarity (under SpecCos).                         *)
(***************************************************************************)
CosDone == call.fn = "cosineSimilarity" /\ result.state = "done"

Neg(v) == [i \in 1..Len(v) |-> -v[i]]

\* C17: the similarity of a non-zero vector with itself is the number 1
\* and with its opposite is the number -1.
C17_SelfAndOpposite ==
    CosDone =>
        /\ (call.b = call.a =>
               /\ ~result.out.threw
               /\ result.out.value = numberOf(1))
        /\ (call.b = Neg(call.a) =>
               /\ ~result.out.threw
               /\ result.out.value = numberOf(-1))

(***************************************************************************)
(* Extractor and Ingest: extractPDF and the routes of documents.ts that    *)
(* write the Document table (POST /upload, POST /external, DELETE /:id),   *)
(* one step per await of a handler.                                        *)
(***************************************************************************)
\* What reading and parsing the uploaded file can give.
ExtractOutcomes ==
    { [ok |-> FALSE, text |-> <<>>, numpages |-> 0],
      [ok |-> TRUE, text |-> <<>>, numpages |-> 1],
      [ok |-> TRUE, text |-> <<"a", "b", ".", " ", "c">>, numpages |-> 2] }

\* extractPDF answering an unreadable file with an empty text
extractPDF_Swallow(filePath, outcome) ==
    [threw |-> FALSE, error |-> "", text |-> outcome.text,
     pageCount |-> outcome.numpages]

extractPDF(filePath, outcome) ==
    IF outcome.ok
    THEN [threw |-> FALSE, error |-> "", text |-> outcome.text,
          pageCount |-> outcome.numpages]
    ELSE [threw |-> TRUE, error |-> "Failed to extract text from PDF",
          text |-> <<>>, pageCount |-> 0]

NoFile == [originalname |-> "", path |-> "", filename |-> ""]

UploadFiles ==
    { [originalname |-> "a.pdf", path |-> "app_data/uploads/1-a.pdf",
       filename |-> "1-a.pdf"],
      [originalname |-> "b.pdf", path |-> "app_data/uploads/2-b.pdf",
       filename |-> "2-b.pdf"] }

UploadBodies ==
    { [file |-> f, projectId |-> p] :
        f \in {NoFile} \cup UploadFiles, p \in {"", "p1", "px"} }

ExternalUrl == "https://arxiv.org/pdf/1706.03762"

\* The bodies of POST /api/documents/external.
ExternalBodies ==
    { [projectId |-> p, url |-> ExternalUrl, filename |-> "x.pdf"] :
        p \in {"", "p1", "px"} }
    \cup { [projectId |-> "p1", url |-> "", filename |-> "x.pdf"],
           [projectId |-> "p1", url |-> ExternalUrl, filename |-> ""] }

NoDocument == [id |-> Null, projectId |-> "", filename |-> "",
               filePath |-> "", pageCount |-> 0, req |-> 0]

UploadNoRes == [status |-> 0, error |-> "", document |-> NoDocument,
                fileUrl |-> <<"", "">>]

UploadErrorRes(status, message) ==
    [UploadNoRes EXCEPT !.status = status, !.error = message]

UploadIdleReq ==
    [id |-> 0, pc |-> "idle", route |-> "none", file |-> NoFile,
     projectId |-> "", url |-> "", filename |-> "",
     text |-> <<>>, pageCount |-> 0, extraction |-> "none",
     rejectedCall |-> "", res |-> UploadNoRes]

\* The catch of a handler of documents.ts, reached from a store call that
\* rejects: next(error), and the error middleware answers 500 with the
\* message of the error.
documentStoreRejected(r, storeCall) ==
    [r EXCEPT !.pc = "done", !.rejectedCall = storeCall,
              !.res = UploadErrorRes(500, StoreError)]

\* Lines 87-110: the checks of the file, of the project id and of the
\* project.
uploaded(r, project) ==
    IF r.file = NoFile
    THEN [r EXCEPT !.pc = "done", !.res = UploadErrorRes(400, "No file uploaded")]
    ELSE IF r.projectId = ""
    THEN [r EXCEPT !.pc = "done",
                   !.res = UploadErrorRes(400, "Project ID is required")]
    ELSE IF ~project.found
    THEN [r EXCEPT !.pc = "done",
                   !.res = UploadErrorRes(404, "Project not found")]
    ELSE [r EXCEPT !.pc = "extract"]

\* Line 114 and the catch of lines 138-141: the error of extractPDF goes
\* to the error middleware, its result to the handler's locals.
extracted(r, ex) ==
    IF ex.threw
    THEN [r EXCEPT !.pc = "done", !.res = UploadErrorRes(500, ex.error)]
    ELSE [r EXCEPT !.pc = "create", !.text = ex.text,
                   !.pageCount = ex.pageCount]

\* documentRow without the page count
documentRow_NoPageCount(r, id) ==
    [id |-> id, projectId |-> r.projectId, filename |-> r.file.originalname,
     filePath |-> r.file.path, pageCount |-> 0, req |-> r.id]

\* Lines 119-126: the data of prisma.document.create.
documentRow(r, id) ==
    [id |-> id, projectId |-> r.projectId, filename |-> r.file.originalname,
     filePath |-> r.file.path, pageCount |-> r.pageCount, req |-> r.id]

\* POST /api/documents/upload up to its first await: the checks of lines
\* 87-94 answer without a store call, else prisma.project.findUnique is
\* answered or rejected.
UploadReceive(slot, body) ==
    /\ reqs[slot].pc \in {"idle", "done"}
    /\ nreq < MaxUploads
    /\ nreq' = nreq + 1
    /\ LET r == [UploadIdleReq EXCEPT !.id = nreq + 1,
                                      !.route = "upload",
                                      !.file = body.file,
                                      !.projectId = body.projectId]
       IN \/ reqs' = [reqs EXCEPT ![slot] =
                 uploaded(r, findProject(projects, users, body.projectId))]
          \/ /\ body.file # NoFile
             /\ body.projectId # ""
             /\ reqs' = [reqs EXCEPT ![slot] =
                    documentStoreRejected(r, "project.findUnique")]
    /\ UNCHANGED <<users, projects, documents, chunks, chatSessions,
                   chatMessages, call, result,
                   notes, usersTwin, globalPendingHighlights, listeners,
                   notebook, inserted>>

UploadExtract(slot) ==
    /\ reqs[slot].pc = "extract"
    /\ \E outcome \in ExtractOutcomes :
          reqs' = [reqs EXCEPT ![slot] =
             extracted([reqs[slot] EXCEPT !.extraction =
                           IF outcome.ok THEN "returned" ELSE "failed"],
                       extractPDF(reqs[slot].file.path, outcome))]
    /\ UNCHANGED <<users, projects, documents, chunks, chatSessions,
                   chatMessages, nreq, call, result,
                   notes, usersTwin, globalPendingHighlights, listeners,
                   notebook, inserted>>

\* prisma.document.create: the row is written, or the foreign key
\* Document_projectId_fkey rejects it because the project has gone since
\* the handler's check, or the store rejects the call.
createDocument(r, projectTable, docTable, document, created) ==
    (IF \E p \in 1..Len(projectTable) : projectTable[p].id = r.projectId
     THEN { [documents |-> Append(docTable, document), req |-> created] }
     ELSE { [documents |-> docTable,
             req |-> [r EXCEPT !.pc = "done",
                               !.rejectedCall = "document.create",
                               !.res = UploadErrorRes(500,
                                          "Foreign key constraint failed")]] })
    \cup { [documents |-> docTable,
            req |-> documentStoreRejected(r, "document.create")] }

\* Lines 117-137: the document is created, no chunk is, and the document
\* is answered with its file URL.
UploadCreateDocument(slot) ==
    /\ reqs[slot].pc = "create"
    /\ LET r == reqs[slot]
           document == documentRow(r, <<ToString(r.id)>>)
           created == [r EXCEPT
                         !.pc = "done",
                         !.res = [status |-> 201, error |-> "",
                                  document |-> document,
                                  fileUrl |-> <<"/uploads/",
                                                r.file.filename>>]]
       IN \E out \in createDocument(r, projects, documents, document,
                                     created) :
             /\ documents' = out.documents
             /\ reqs' = [reqs EXCEPT ![slot] = out.req]
    /\ UNCHANGED <<users, projects, chunks, chatSessions, chatMessages,
                   nreq, call, result,
                   notes, usersTwin, globalPendingHighlights, listeners,
                   notebook, inserted>>

\* Lines 147-160 of POST /api/documents/external: the check of the body
\* and of the project.
externalReceived(r, project) ==
    IF r.projectId = "" \/ r.url = "" \/ r.filename = ""
    THEN [r EXCEPT !.pc = "done",
                   !.res = UploadErrorRes(400,
                              "Project ID, URL, and filename are required")]
    ELSE IF ~project.found
    THEN [r EXCEPT !.pc = "done",
                   !.res = UploadErrorRes(404, "Project not found")]
    ELSE [r EXCEPT !.pc = "createExternal"]

\* Lines 162-168: the data of prisma.document.create; the URL is stored as
\* the file path and the page count is left null.
externalRow(r, id) ==
    [id |-> id, projectId |-> r.projectId, filename |-> r.filename,
     filePath |-> r.url, pageCount |-> Null, req |-> r.id]

\* POST /api/documents/external up to its first await.
ExternalReceive(slot, body) ==
    /\ reqs[slot].pc \in {"idle", "done"}
    /\ nreq < MaxUploads
    /\ nreq' = nreq + 1
    /\ LET r == [UploadIdleReq EXCEPT !.id = nreq + 1,
                                      !.route = "external",
                                      !.projectId = body.projectId,
                                      !.url = body.url,
                                      !.filename = body.filename]
       IN \/ reqs' = [reqs EXCEPT ![slot] =
                 externalReceived(r, findProject(projects, users,
                                                 body.projectId))]
          \/ /\ body.projectId # "" /\ body.url # "" /\ body.filename # ""
             /\ reqs' = [reqs EXCEPT ![slot] =
                    documentStoreRejected(r, "project.findUnique")]
    /\ UNCHANGED <<users, projects, documents, chunks, chatSessions,
                   chatMessages, call, result,
                   notes, usersTwin, globalPendingHighlights, listeners,
                   notebook, inserted>>

\* Lines 162-175: the document is created and answered with the URL as
\* its file URL.
ExternalCreateDocument(slot) ==
    /\ reqs[slot].pc = "createExternal"
    /\ LET r == reqs[slot]
           document == externalRow(r, <<ToString(r.id)>>)
           created == [r EXCEPT
                         !.pc = "done",
                         !.res = [status |-> 201, error |-> "",
                                  document |-> document,
                                  fileUrl |-> <<r.url>>]]
       IN \E out \in createDocument(r, projects, documents, document,
                                     created) :
             /\ documents' = out.documents
             /\ reqs' = [reqs EXCEPT ![slot] = out.req]
    /\ UNCHANGED <<users, projects, chunks, chatSessions, chatMessages,
                   nreq, call, result,
                   notes, usersTwin, globalPendingHighlights, listeners,
                   notebook, inserted>>

\* prisma.document.delete({ where: { id } }): throws when no row has the
\* id; else the row goes, and with it, by ON DELETE CASCADE of
\* DocumentChunk_documentId_fkey, the chunks of the document.
deleteDocument(db, id) ==
    IF \A i \in 1..Len(db.documents) : db.documents[i].id # id
    THEN [threw |-> TRUE, documents |-> db.documents, chunks |-> db.chunks]
    ELSE [threw |-> FALSE,
          documents |-> SelectSeq(db.documents, LAMBDA d : d.id # id),
          chunks |-> SelectSeq(db.chunks, LAMBDA c : c.documentId # id)]

DocumentNoRes == [route |-> "none", status |-> 0, error |-> ""]

\* The ids that DELETE /api/documents/:id is called with: of a document of
\* the initial table, of the document that the first request creates, of
\* no document.
DocumentRequestIds == {<<"d1">>, <<"1">>, <<"dx">>}

\* Lines 237-249: DELETE /api/documents/:id answers 204, or hands the
\* error of prisma to the error middleware.
DocumentDelete(id) ==
    /\ LET out == deleteDocument([documents |-> documents,
                                  chunks |-> chunks], id)
       IN \/ /\ documents' = out.documents
             /\ chunks' = out.chunks
             /\ result' = [DocumentNoRes EXCEPT
                              !.route = "DELETE document",
                              !.status = IF out.threw THEN 500 ELSE 204,
                              !.error =
                                 IF out.threw
                                 THEN "Record to delete does not exist."
                                 ELSE ""]
          \/ /\ UNCHANGED <<documents, chunks>>
             /\ result' = [DocumentNoRes EXCEPT
                              !.route = "DELETE document",
                              !.status = 500, !.error = StoreError]
    /\ UNCHANGED <<users, projects, chatSessions, chatMessages, reqs, nreq,
                   call, notes, usersTwin, globalPendingHighlights,
                   listeners, notebook, inserted>>

(***************************************************************************)
(* Credential endpoints: POST /api-key, GET /api-key/status and            *)
(* DELETE /api-key of user.ts.  Every request is served twice, on users    *)
(* and on usersTwin, the second time with the twin's key in the body.      *)
(***************************************************************************)
DefaultEmail == "demo@scholarstack.local"

UserIds == <<"u1", "u2", "u3">>

Undefined == "<undefined>"

NullModel == "<null>"

StoredKeys == {KeyOpenAI, KeyGemini}

KeyBodies ==
    { [email |-> e, apiKey |-> k, aiModel |-> m] :
        e \in {"", "a@scholarstack.local"},
        k \in {Null, <<>>} \cup StoredKeys,
        m \in {Undefined, "", "gpt-4o"} }

KeyNoRes == [status |-> 0, error |-> "", id |-> "", email |-> "",
             hasApiKey |-> FALSE, aiModel |-> Undefined]

\* email || 'demo@scholarstack.local'
userEmailOf(email) == IF email = "" THEN DefaultEmail ELSE email

\* prisma.user.findUnique({ where: { email } }): the row's position, 0 for
\* none.
findUserByEmail(userTable, email) ==
    LET hits == {i \in 1..Len(userTable) : userTable[i].email = email}
    IN IF hits = {} THEN 0 ELSE CHOOSE i \in hits : TRUE

\* aiModel || null
modelOrNull(aiModel) ==
    IF aiModel = "" \/ aiModel = Undefined THEN NullModel ELSE aiModel

\* publicUser answering whether the stored key is one of OpenAI
publicUser_KeyFormat(user) ==
    [KeyNoRes EXCEPT !.status = 200, !.id = user.id, !.email = user.email,
                     !.hasApiKey = Truthy(user.apiKey) /\ isOpenAI(user.apiKey)]

\* res.json({ id: user.id, email: user.email, hasApiKey: !!user.apiKey })
publicUser(user) ==
    [KeyNoRes EXCEPT !.status = 200, !.id = user.id, !.email = user.email,
                     !.hasApiKey = Truthy(user.apiKey)]

\* Lines 10-22 of POST /api-key: the check of the body, answered at once
\* with 400, and prisma.user.findUnique({ where: { email: userEmail } }).
postApiKeyFound(userTable, body) ==
    IF ~Truthy(body.apiKey) /\ body.aiModel = Undefined
    THEN [pc |-> "done", found |-> FALSE,
          res |-> [KeyNoRes EXCEPT
                     !.status = 400,
                     !.error = "API key or AI Model preference is required"]]
    ELSE [pc |-> "write",
          found |-> findUserByEmail(userTable, userEmailOf(body.email)) # 0,
          res |-> KeyNoRes]

\* Lines 24-53 of POST /api-key: the user found is updated by its email,
\* else a user is created, which the unique index User_email_key rejects
\* when the email has been taken since; the error of prisma goes to the
\* error middleware.  Prisma quotes the field name in backticks, written
\* here as single quotes.
postApiKeyWritten(userTable, body, found) ==
    LET userEmail == userEmailOf(body.email)
        i == findUserByEmail(userTable, userEmail)
    IN IF found
       THEN IF i = 0
            THEN [table |-> userTable,
                  res |-> [KeyNoRes EXCEPT
                             !.status = 500,
                             !.error = "Record to update not found"]]
            ELSE LET user == [userTable[i] EXCEPT
                                !.apiKey = IF Truthy(body.apiKey)
                                           THEN body.apiKey ELSE @,
                                !.aiModel = IF body.aiModel # Undefined
                                            THEN modelOrNull(body.aiModel)
                                            ELSE @]
                 IN [table |-> [userTable EXCEPT ![i] = user],
                     res |-> publicUser(user)]
       ELSE IF i # 0
            THEN [table |-> userTable,
                  res |-> [KeyNoRes EXCEPT
                             !.status = 500,
                             !.error =
                               "Unique constraint failed on the fields: ('email')"]]
            ELSE LET user == [id |-> UserIds[Len(userTable) + 1],
                              email |-> userEmail, apiKey |-> body.apiKey,
                              aiModel |-> modelOrNull(body.aiModel)]
                 IN [table |-> Append(userTable, user),
                     res |-> publicUser(user)]

\* GET /api-key/status
apiKeyStatus(userTable, email) ==
    LET userEmail == userEmailOf(email)
        i == findUserByEmail(userTable, userEmail)
    IN [KeyNoRes EXCEPT
          !.status = 200,
          !.hasApiKey = i # 0 /\ Truthy(userTable[i].apiKey),
          !.aiModel = IF i = 0 THEN Undefined ELSE userTable[i].aiModel,
          !.email = userEmail]

\* DELETE /api-key: prisma.user.update throws when no row has the email,
\* and the error goes to the error middleware.
deleteApiKey(userTable, email) ==
    LET userEmail == userEmailOf(email)
        i == findUserByEmail(userTable, userEmail)
    IN IF i = 0
       THEN [table |-> userTable,
             res |-> [KeyNoRes EXCEPT !.status = 500,
                                      !.error = "Record to update not found"]]
       ELSE [table |-> [userTable EXCEPT ![i].apiKey = Null],
             res |-> [KeyNoRes EXCEPT !.status = 200,
                                      !.id = userTable[i].id,
                                      !.email = userTable[i].email,
                                      !.hasApiKey = FALSE]]

\* The body of the second run: the same, but for another non-empty key.
TwinBodies(body) ==
    IF body.apiKey \in StoredKeys
    THEN {[body EXCEPT !.apiKey = k] : k \in StoredKeys}
    ELSE {body}

KeyNoBody == [email |-> "", apiKey |-> Null, aiModel |-> Undefined]

KeyIdleReq == [pc |-> "idle", body |-> KeyNoBody, twin |-> KeyNoBody,
               found |-> FALSE, foundTwin |-> FALSE]

KeyDb ==
    /\ projects = <<>>
    /\ documents = <<>>
    /\ chunks = <<>>
    /\ chatSessions = <<>>
    /\ chatMessages = <<>>
    /\ reqs = [slot \in Slots |-> KeyIdleReq]
    /\ nreq = 0
    /\ notes = <<>>
    /\ globalPendingHighlights = <<>>
    /\ listeners = {}
    /\ notebook = NotebookUnmounted
    /\ inserted = <<>>

InitKey ==
    /\ KeyDb
    /\ users = <<>>
    /\ usersTwin = <<>>
    /\ call = [fn |-> "none", email |-> ""]
    /\ result = [state |-> "none", res |-> KeyNoRes, resTwin |-> KeyNoRes]

\* POST /api-key up to its first await: the body is checked and the user
\* is looked up, in either run.
KeyPostReceive(slot, body) ==
    /\ reqs[slot].pc = "idle"
    /\ nreq < MaxKeyPosts
    /\ nreq' = nreq + 1
    /\ \E twin \in TwinBodies(body) :
          LET one == postApiKeyFound(users, body)
              two == postApiKeyFound(usersTwin, twin)
          IN /\ reqs' = [reqs EXCEPT ![slot] =
                   IF one.pc = "done"
                   THEN KeyIdleReq
                   ELSE [pc |-> "write", body |-> body, twin |-> twin,
                         found |-> one.found, foundTwin |-> two.found]]
             /\ IF one.pc = "done"
                THEN /\ result' = [state |-> "done", res |-> one.res,
                                   resTwin |-> two.res]
                     /\ call' = [fn |-> "POST /api-key",
                                 email |-> body.email]
                ELSE UNCHANGED <<result, call>>
    /\ UNCHANGED <<users, usersTwin, projects, documents, chunks,
                   chatSessions, chatMessages, notes,
                   globalPendingHighlights, listeners, notebook, inserted>>

\* POST /api-key from its second await on: the update or the create, and
\* the response.
KeyPostWrite(slot) ==
    /\ reqs[slot].pc = "write"
    /\ LET r == reqs[slot]
           one == postApiKeyWritten(users, r.body, r.found)
           two == postApiKeyWritten(usersTwin, r.twin, r.foundTwin)
       IN /\ users' = one.table
          /\ usersTwin' = two.table
          /\ result' = [state |-> "done", res |-> one.res,
                        resTwin |-> two.res]
          /\ call' = [fn |-> "POST /api-key", email |-> r.body.email]
    /\ reqs' = [reqs EXCEPT ![slot] = KeyIdleReq]
    /\ UNCHANGED <<projects, documents, chunks, chatSessions, chatMessages,
                   nreq, notes, globalPendingHighlights, listeners,
                   notebook, inserted>>

KeyStatus(email) ==
    /\ result' = [state |-> "done", res |-> apiKeyStatus(users, email),
                  resTwin |-> apiKeyStatus(usersTwin, email)]
    /\ call' = [fn |-> "GET /api-key/status", email |-> email]
    /\ UNCHANGED <<users, usersTwin, projects, documents, chunks,
                   chatSessions, chatMessages, reqs, nreq, notes,
                   globalPendingHighlights, listeners, notebook, inserted>>

KeyDelete(email) ==
    /\ LET one == deleteApiKey(users, email)
           two == deleteApiKey(usersTwin, email)
       IN /\ users' = one.table
          /\ usersTwin' = two.table
          /\ result' = [state |-> "done", res |-> one.res, resTwin |-> two.res]
    /\ call' = [fn |-> "DELETE /api-key", email |-> email]
    /\ UNCHANGED <<projects, documents, chunks, chatSessions, chatMessages,
                   reqs, nreq, notes, globalPendingHighlights, listeners,
                   notebook, inserted>>

NextKey ==
    \/ \E slot \in Slots :
          \/ \E body \in KeyBodies : KeyPostReceive(slot, body)
          \/ KeyPostWrite(slot)
    \/ \E email \in {"", "a@scholarstack.local"} : KeyStatus(email)
    \/ \E email \in {"", "a@scholarstack.local"} : KeyDelete(email)

SpecKey == InitKey /\ [][NextKey]_vars

(***************************************************************************)
(* Properties of the credential endpoints (under SpecKey).                 *)
(***************************************************************************)
HasStoredKey(userTable, email) ==
    \E i \in 1..Len(userTable) :
        /\ userTable[i].email = (IF email = "" THEN DefaultEmail ELSE email)
        /\ userTable[i].apiKey # Null
        /\ userTable[i].apiKey # <<>>

\* C21: two runs of the credential endpoints that differ only in the values
\* of the non-empty keys answer every request alike, and the status
\* endpoint's hasApiKey tells whether a non-empty key is stored.
C21_KeyNotInResponse ==
    result.state = "done"
        => /\ result.res = result.resTwin
           /\ call.fn = "GET /api-key/status"
                 => (result.res.hasApiKey <=> HasStoredKey(users, call.email))
           /\ call.fn = "DELETE /api-key" => ~result.res.hasApiKey

\* The status of a user whose stored key differs between the two runs.
C21_Witness ==
    /\ result.state = "done"
    /\ call.fn = "GET /api-key/status"
    /\ result.res.hasApiKey
    /\ \E i \in 1..Len(users) :
          /\ users[i].email = result.res.email
          /\ users[i].apiKey # usersTwin[i].apiKey
          /\ usersTwin[i].apiKey \in StoredKeys

(***************************************************************************)
(* Properties of the chat route's sessions and messages (under SpecSess)   *)
(* and of its response (under Spec).                                       *)
(***************************************************************************)
SessionOf(id) ==
    chatSessions[CHOOSE i \in 1..Len(chatSessions) : chatSessions[i].id = id]

ExpectedTitle(query) ==
    IF Len(query) > 50
    THEN [i \in 1..53 |-> IF i <= 50 THEN query[i] ELSE "."]
    ELSE query

\* C22: a Query creates a session only when its body names none and the
\* generation has returned, and then exactly one, titled with the first 50
\* characters of the query, followed by "..." exactly when the query is
\* longer; a Query that names a session creates none.
C22_LazySession ==
    /\ \A i, j \in 1..Len(chatSessions) :
          chatSessions[i].req = chatSessions[j].req => i = j
    /\ \A slot \in Slots :
          LET r == reqs[slot]
              mine == RowsOf(chatSessions, r.id)
          IN /\ r.sessionId # Null => mine = {}
             /\ mine # {} => /\ r.calls.synthesizer = 1
                             /\ ~r.backendFailed
                             /\ r.sessionId = Null
             /\ (r.sessionId = Null /\ (r.pc \in {"saveUser", "saveAssistant"}
                                        \/ (r.pc = "done" /\ r.res.status = 200
                                            /\ r.res.sources # <<>>)))
                   => \E i \in 1..Len(chatSessions) :
                         /\ mine = {i}
                         /\ chatSessions[i].title = ExpectedTitle(r.query)
                         /\ chatSessions[i].projectId = r.projectId
                         /\ chatSessions[i].id = r.activeSessionId

\* One answered Query created the session titled with its 50 first
\* characters and "...", another one named that session and created none.
C22_Witness ==
    \E s1, s2 \in Slots :
        /\ s1 # s2
        /\ reqs[s1].pc = "done" /\ reqs[s1].res.status = 200
        /\ reqs[s1].sessionId = Null
        /\ Len(reqs[s1].query) > 50
        /\ \E i \in RowsOf(chatSessions, reqs[s1].id) :
              /\ Len(chatSessions[i].title) = 53
              /\ chatSessions[i].title[53] = "."
              /\ reqs[s2].sessionId = chatSessions[i].id
        /\ reqs[s2].pc = "done" /\ reqs[s2].res.status = 200
        /\ Len(chatSessions) = 1

MessagesOfSession(id) == SelectSeq(chatMessages, LAMBDA m : m.sessionId = id)

\* C28: when no Query is under way, the messages of every session, in
\* creation order, alternate user, assistant from a user message on, and
\* every user message has its assistant reply.
C28_WholeTurns ==
    (\A slot \in Slots : reqs[slot].pc \in {"idle", "done"})
        => \A s \in 1..Len(chatSessions) :
              LET ms == MessagesOfSession(chatSessions[s].id)
              IN /\ Len(ms) % 2 = 0
                 /\ \A k \in 1..Len(ms) :
                       ms[k].role = (IF k % 2 = 1 THEN "user" ELSE "assistant")

\* C29: every message a Query has written lies in a session of the project
\* that the Query names.
C29_MessageInOwnProject ==
    \A slot \in Slots :
        \A m \in RowsOf(chatMessages, reqs[slot].id) :
            SessionOf(chatMessages[m].sessionId).projectId = reqs[slot].projectId

\* The numbers N of the markers [Source N] of the texts the chat backend
\* answers, found once.
AnswerMarkerNumbers ==
    [t \in {IF o.content = Null THEN <<>> ELSE o.content : o \in ChatOutcomes}
        |-> {MarkerNumber(t, sp) : sp \in MarkerSpans(t)}]

markerNumbersOf(t) ==
    IF t \in DOMAIN AnswerMarkerNumbers THEN AnswerMarkerNumbers[t]
    ELSE {MarkerNumber(t, sp) : sp \in MarkerSpans(t)}

\* C27: in an answer with sources, the sources are the retrieved chunks in
\* retrieval order, the citations have pairwise distinct chunk ids, each
\* citation's chunk is one of the sources, and it is the chunk at the
\* position N of a marker [Source N] of the answer text.
C27_CitationsWithinSources ==
    \A slot \in Slots :
        LET r == reqs[slot]
        IN (r.pc = "done" /\ r.res.status = 200 /\ r.relevantChunks # <<>>)
              => /\ Len(r.res.sources) = Len(r.relevantChunks)
                 /\ \A i \in 1..Len(r.res.sources) :
                       /\ r.res.sources[i].chunkId = r.relevantChunks[i].id
                       /\ r.res.sources[i].documentId =
                             r.relevantChunks[i].documentId
                 /\ \A i, j \in 1..Len(r.res.citations) :
                       r.res.citations[i].chunkId = r.res.citations[j].chunkId
                          => i = j
                 /\ \A i \in 1..Len(r.res.citations) :
                       /\ \E k \in 1..Len(r.res.sources) :
                             r.res.sources[k].chunkId = r.res.citations[i].chunkId
                       /\ \E N \in markerNumbersOf(r.res.response) :
                             /\ N \in 1..Len(r.res.sources)
                             /\ r.res.sources[N].chunkId =
                                   r.res.citations[i].chunkId

\* An answer over two sources that cites both, the second one twice, and
\* names a source beyond the list.
C27_Witness ==
    \E slot \in Slots :
        /\ reqs[slot].pc = "done" /\ reqs[slot].res.status = 200
        /\ Len(reqs[slot].res.sources) = 2
        /\ Len(reqs[slot].res.citations) = 2
        /\ reqs[slot].res.citations[1].chunkId = reqs[slot].res.sources[2].chunkId
        /\ reqs[slot].res.citations[2].chunkId = reqs[slot].res.sources[1].chunkId

(***************************************************************************)
(* Termination and normalization of chunkText (under SpecChunk).           *)
(***************************************************************************)
\* C25: with 0 <= overlap < maxChunkSize / 2, every pass of the loop of
\* chunkText that is followed by another pass or by the return moves the
\* window start strictly forward, so that the loop ends after the chunk
\* that reaches the end of the text.
C25_WindowAdvances ==
    [][(/\ call.fn = "chunkText"
        /\ result.state = "loop"
        /\ result'.state = "loop"
        /\ result'.steps = result.steps + 1
        /\ 2 * call.overlap < call.maxChunkSize)
          => result'.currentIndex > result.currentIndex]_vars

\* A newline with a non-whitespace character somewhere before it and
\* somewhere after it.
HasParagraphBreak(text) ==
    \E i \in 1..Len(text) :
        /\ text[i] = "\n"
        /\ \E j \in 1..(i - 1) : ~IsWhitespace(text[j])
        /\ \E j \in (i + 1)..Len(text) : ~IsWhitespace(text[j])

\* C26: the normalized text of an input with a paragraph break still has a
\* newline, the one that the paragraph-break cut of the loop looks for.
C26_NewlineKept ==
    (/\ call.fn = "chunkText"
     /\ result.state # "pending"
     /\ HasParagraphBreak(call.text))
        => \E i \in 1..Len(result.cleanedText) : result.cleanedText[i] = "\n"

(***************************************************************************)
(* Projects: POST /api/projects, GET, PATCH and DELETE /api/projects/:id   *)
(* over the Project, Document and DocumentChunk tables of the migration.   *)
(***************************************************************************)
\* The id that prisma gives to the next project created.
newProjectId(created) == "p" \o ToString(created + 3)

ProjectNames == {"", "thesis"}

NoProject == [id |-> "", userId |-> "", name |-> ""]

ProjNoRes == [route |-> "none", id |-> "", status |-> 0, error |-> "",
              project |-> NoProject, documents |-> <<>>]

\* deleteProject leaving the documents and chunks of the project
deleteProject_NoCascade(db, id) ==
    IF \A i \in 1..Len(db.projects) : db.projects[i].id # id
    THEN [threw |-> TRUE, projects |-> db.projects,
          documents |-> db.documents, chunks |-> db.chunks]
    ELSE [threw |-> FALSE,
          projects |-> SelectSeq(db.projects, LAMBDA p : p.id # id),
          documents |-> db.documents, chunks |-> db.chunks]

\* prisma.project.delete({ where: { id } }): throws when no row has the
\* id; else the row goes, and with it, by ON DELETE CASCADE of
\* Document_projectId_fkey and DocumentChunk_documentId_fkey, the
\* documents of the project and the chunks of those documents.
deleteProject(db, id) ==
    IF \A i \in 1..Len(db.projects) : db.projects[i].id # id
    THEN [threw |-> TRUE, projects |-> db.projects,
          documents |-> db.documents, chunks |-> db.chunks]
    ELSE LET gone == {db.documents[i].id :
                         i \in {j \in 1..Len(db.documents) :
                                   db.documents[j].projectId = id}}
         IN [threw |-> FALSE,
             projects |-> SelectSeq(db.projects, LAMBDA p : p.id # id),
             documents |-> SelectSeq(db.documents,
                                     LAMBDA d : d.projectId # id),
             chunks |-> SelectSeq(db.chunks,
                                  LAMBDA c : c.documentId \notin gone)]

\* Lines 10-17 of POST /api/projects: the check of the name, answered at
\* once with 400, and prisma.user.findFirst().
createProjectFound(userTable, name) ==
    IF name = ""
    THEN [pc |-> "done", userId |-> "",
          res |-> [ProjNoRes EXCEPT !.route = "POST", !.status = 400,
                                    !.error = "Project name is required"]]
    ELSE IF userTable = <<>>
    THEN [pc |-> "user", userId |-> "", res |-> ProjNoRes]
    ELSE [pc |-> "project", userId |-> userTable[1].id, res |-> ProjNoRes]

\* Lines 19-23: prisma.user.create of the default user, which the unique
\* index User_email_key rejects when the email has been taken since; the
\* error of prisma goes to the error middleware.  Prisma quotes the field
\* name in backticks, written here as single quotes.
createDefaultUser(userTable) ==
    IF \E i \in 1..Len(userTable) : userTable[i].email = DefaultEmail
    THEN [pc |-> "done", userId |-> "", users |-> userTable,
          res |-> [ProjNoRes EXCEPT
                     !.route = "POST", !.status = 500,
                     !.error =
                       "Unique constraint failed on the fields: ('email')"]]
    ELSE LET user == [id |-> UserIds[Len(userTable) + 1],
                      email |-> DefaultEmail, apiKey |-> Null]
         IN [pc |-> "project", userId |-> user.id,
             users |-> Append(userTable, user), res |-> ProjNoRes]

\* Lines 26-37: prisma.project.create and the response.
createProject(projectTable, name, userId, id) ==
    LET project == [id |-> id, userId |-> userId, name |-> name]
    IN [projects |-> Append(projectTable, project),
        res |-> [ProjNoRes EXCEPT !.route = "POST", !.id = id,
                                  !.status = 201, !.project = project]]

\* Lines 74-97: GET /api/projects/:id.
getProject(projectTable, docTable, id) ==
    LET hits == SelectSeq(projectTable, LAMBDA p : p.id = id)
    IN IF hits = <<>>
       THEN [ProjNoRes EXCEPT !.route = "GET", !.id = id, !.status = 404,
                              !.error = "Project not found"]
       ELSE [ProjNoRes EXCEPT !.route = "GET", !.id = id, !.status = 200,
                              !.project = hits[1],
                              !.documents =
                                  SelectSeq(docTable,
                                            LAMBDA d : d.projectId = id)]

(***************************************************************************)
(* SpecProj: the routes that write Project, Document or DocumentChunk rows *)
(* (POST /api/projects, PATCH and DELETE /api/projects/:id, POST /upload,  *)
(* POST /external and DELETE /:id of documents.ts) and GET                 *)
(* /api/projects/:id, over a database with two projects, their documents   *)
(* and chunks, or over an empty one.                                       *)
(***************************************************************************)
ProjDocRows ==
    [i \in 1..Len(DocRows) |->
        [id |-> <<DocRows[i].id>>, projectId |-> DocRows[i].projectId,
         filename |-> DocRows[i].filename, filePath |-> "",
         pageCount |-> 1, req |-> 0]]

ProjRequestIds == {"p1", "p2", "px"} \cup
                  {newProjectId(k) : k \in 0..(MaxProjects - 1)}

\* One upload and two POST /api/projects can be in flight.
ProjUploadSlots == {1}

ProjSlots == 2..3

ProjIdleReq == [pc |-> "idle", name |-> "", userId |-> ""]

\* The database with two projects of the default user, or the database of
\* a fresh installation.
InitProj ==
    /\ \/ /\ users = << [id |-> "u1", email |-> DefaultEmail,
                          apiKey |-> Null] >>
          /\ projects = << [id |-> "p1", userId |-> "u1", name |-> "thesis"],
                           [id |-> "p2", userId |-> "u1", name |-> "thesis"] >>
          /\ documents = ProjDocRows
          /\ chunks = ChunkTableOf(ProjDocRows,
                                   <<KindEmbeddedA, KindNoEmbedding,
                                     KindEmbeddedB>>)
       \/ /\ users = <<>>
          /\ projects = <<>>
          /\ documents = <<>>
          /\ chunks = <<>>
    /\ chatSessions = <<>>
    /\ chatMessages = <<>>
    /\ reqs = [slot \in ProjUploadSlots \cup ProjSlots |->
                  IF slot \in ProjUploadSlots THEN UploadIdleReq
                  ELSE ProjIdleReq]
    /\ nreq = 0
    /\ call = [fn |-> "projects", created |-> 0, deleted |-> {},
               deletedDocuments |-> {}, deletedChunks |-> {}]
    /\ result = ProjNoRes
    /\ ElsewhereIdle

\* POST /api/projects up to its first await, while fewer than MaxProjects
\* projects have been created or are about to be.
ProjCreateReceive(slot, name) ==
    /\ reqs[slot].pc = "idle"
    /\ call.created + Cardinality({other \in ProjSlots :
                                     reqs[other].pc = "project"})
          < MaxProjects
    /\ LET out == createProjectFound(users, name)
       IN IF out.pc = "done"
          THEN /\ result' = out.res
               /\ UNCHANGED <<reqs, call>>
          ELSE /\ reqs' = [reqs EXCEPT ![slot] =
                              [pc |-> out.pc, name |-> name,
                               userId |-> out.userId]]
               /\ UNCHANGED <<result, call>>
    /\ UNCHANGED <<users, projects, documents, chunks, chatSessions,
                   chatMessages, nreq, notes, usersTwin,
                   globalPendingHighlights, listeners, notebook, inserted>>

\* POST /api/projects from the create of the default user to its await.
ProjCreateUser(slot) ==
    /\ reqs[slot].pc = "user"
    /\ LET out == createDefaultUser(users)
       IN /\ users' = out.users
          /\ IF out.pc = "done"
             THEN /\ result' = out.res
                  /\ reqs' = [reqs EXCEPT ![slot] = ProjIdleReq]
             ELSE /\ reqs' = [reqs EXCEPT ![slot].pc = "project",
                                          ![slot].userId = out.userId]
                  /\ UNCHANGED result
    /\ UNCHANGED <<projects, documents, chunks, chatSessions, chatMessages,
                   nreq, call, notes, usersTwin, globalPendingHighlights,
                   listeners, notebook, inserted>>

\* POST /api/projects from the create of the project on.
ProjCreateProject(slot) ==
    /\ reqs[slot].pc = "project"
    /\ LET out == createProject(projects, reqs[slot].name,
                                reqs[slot].userId,
                                newProjectId(call.created))
       IN /\ projects' = out.projects
          /\ result' = out.res
    /\ call' = [call EXCEPT !.created = @ + 1]
    /\ reqs' = [reqs EXCEPT ![slot] = ProjIdleReq]
    /\ UNCHANGED <<users, documents, chunks, chatSessions, chatMessages,
                   nreq, notes, usersTwin, globalPendingHighlights,
                   listeners, notebook, inserted>>

ProjGet(id) ==
    /\ result' = getProject(projects, documents, id)
    /\ UNCHANGED <<users, projects, documents, chunks, chatSessions,
                   chatMessages, reqs, nreq, call,
                   notes, usersTwin, globalPendingHighlights, listeners,
                   notebook, inserted>>

\* Lines 117-129: DELETE /api/projects/:id answers 204, or hands the error
\* of prisma to the error middleware.
ProjDelete(id) ==
    /\ LET out == deleteProject([projects |-> projects,
                                 documents |-> documents,
                                 chunks |-> chunks], id)
           owned == {documents[i].id :
                        i \in {j \in 1..Len(documents) :
                                  documents[j].projectId = id}}
           ownedChunks == {chunks[i].id :
                              i \in {j \in 1..Len(chunks) :
                                        chunks[j].documentId \in owned}}
       IN /\ projects' = out.projects
          /\ documents' = out.documents
          /\ chunks' = out.chunks
          /\ result' = [ProjNoRes EXCEPT
                           !.route = "DELETE", !.id = id,
                           !.status = IF out.threw THEN 500 ELSE 204,
                           !.error = IF out.threw
                                     THEN "Record to delete does not exist."
                                     ELSE ""]
          /\ call' = IF out.threw THEN call
                     ELSE [call EXCEPT
                             !.deleted = @ \cup {id},
                             !.deletedDocuments = @ \cup owned,
                             !.deletedChunks = @ \cup ownedChunks]
    /\ UNCHANGED <<users, chatSessions, chatMessages, reqs, nreq,
                   notes, usersTwin, globalPendingHighlights, listeners,
                   notebook, inserted>>

\* prisma.project.update({ where: { id }, data: { name } }): throws when
\* no row has the id; else the row takes the name of the body, or stays as
\* it is when the body carries no name.
updateProject(projectTable, id, name) ==
    IF \A i \in 1..Len(projectTable) : projectTable[i].id # id
    THEN [threw |-> TRUE, projects |-> projectTable, project |-> NoProject]
    ELSE LET updated == [i \in 1..Len(projectTable) |->
                            IF projectTable[i].id = id /\ name # Undefined
                            THEN [projectTable[i] EXCEPT !.name = name]
                            ELSE projectTable[i]]
         IN [threw |-> FALSE, projects |-> updated,
             project |-> SelectSeq(updated, LAMBDA p : p.id = id)[1]]

\* The requests of PATCH, an id and the name of the body: of a project of
\* the initial table with a name and with none, of no project.
PatchRequests == {<<"p1", "survey">>, <<"p1", Undefined>>, <<"px", "survey">>}

\* Lines 100-114: PATCH /api/projects/:id answers the updated project, or
\* hands the error of prisma to the error middleware.
ProjPatch(id, name) ==
    /\ LET out == updateProject(projects, id, name)
       IN \/ /\ projects' = out.projects
             /\ result' = [ProjNoRes EXCEPT
                              !.route = "PATCH", !.id = id,
                              !.status = IF out.threw THEN 500 ELSE 200,
                              !.error = IF out.threw
                                        THEN "Record to update not found."
                                        ELSE "",
                              !.project = out.project]
          \/ /\ projects' = projects
             /\ result' = [ProjNoRes EXCEPT
                              !.route = "PATCH", !.id = id,
                              !.status = 500, !.error = StoreError]
    /\ UNCHANGED <<users, documents, chunks, chatSessions, chatMessages,
                   reqs, nreq, call, notes, usersTwin,
                   globalPendingHighlights, listeners, notebook, inserted>>

\* The uploads of one file to the first project.
ProjUploadBodies ==
    { [file |-> f, projectId |-> "p1"] :
        f \in {g \in UploadFiles : g.originalname = "a.pdf"} }

\* The external documents of one URL for the first project.
ProjExternalBodies ==
    { [projectId |-> "p1", url |-> ExternalUrl, filename |-> "x.pdf"] }

\* The ids that DELETE /api/projects/:id is called with: of the project
\* that owns two documents, of no project, of a project created since.
ProjDeleteIds == ProjRequestIds \ {"p2"}

NextProj ==
    \/ \E slot \in ProjSlots :
          \/ \E name \in ProjectNames : ProjCreateReceive(slot, name)
          \/ ProjCreateUser(slot)
          \/ ProjCreateProject(slot)
    \/ \E id \in ProjRequestIds : ProjGet(id)
    \/ \E patch \in PatchRequests : ProjPatch(patch[1], patch[2])
    \/ \E id \in ProjDeleteIds : ProjDelete(id)
    \/ \E slot \in ProjUploadSlots :
          \/ \E body \in ProjUploadBodies : UploadReceive(slot, body)
          \/ UploadExtract(slot)
          \/ UploadCreateDocument(slot)
          \/ \E body \in ProjExternalBodies : ExternalReceive(slot, body)
          \/ ExternalCreateDocument(slot)
    \/ \E id \in DocumentRequestIds : DocumentDelete(id)

SpecProj == InitProj /\ [][NextProj]_vars

InitIngest ==
    /\ \E key \in {Null, KeyOpenAI} :
          users = << [id |-> "u1", email |-> "demo@scholarstack.local",
                      apiKey |-> key] >>
    /\ projects = << [id |-> "p1", userId |-> "u1", name |-> "thesis"],
                     [id |-> "p2", userId |-> "u1", name |-> "thesis"] >>
    /\ documents = ProjDocRows
    /\ chunks = ChunkTableOf(ProjDocRows,
                             <<KindEmbeddedA, KindNoEmbedding, KindEmbeddedB>>)
    /\ chatSessions = <<>>
    /\ chatMessages = <<>>
    /\ reqs = [slot \in Slots |-> UploadIdleReq]
    /\ nreq = 0
    /\ call = [fn |-> "projects", created |-> 0, deleted |-> {},
               deletedDocuments |-> {}, deletedChunks |-> {}]
    /\ result = DocumentNoRes
    /\ ElsewhereIdle

NextIngest ==
    \/ \E slot \in Slots :
          \/ \E body \in UploadBodies : UploadReceive(slot, body)
          \/ UploadExtract(slot)
          \/ UploadCreateDocument(slot)
          \/ \E body \in ExternalBodies : ExternalReceive(slot, body)
          \/ ExternalCreateDocument(slot)
    \/ \E id \in DocumentRequestIds : DocumentDelete(id)
    \/ ProjDelete("p1")

SpecIngest == InitIngest /\ [][NextIngest]_vars

(***************************************************************************)
(* Properties of the upload route (under SpecIngest).                      *)
(***************************************************************************)
ChunksOfDocument(id) == SelectSeq(chunks, LAMBDA c : c.documentId = id)

\* C18: an upload whose extraction failed is answered with the error of
\* the extraction and has created no document: no row of the Document
\* table was written by the request.
C18_ExtractionFailure ==
    \A slot \in Slots :
        LET r == reqs[slot]
        IN r.extraction = "failed"
              => /\ r.pc = "done"
                 /\ r.res.status = 500
                 /\ r.res.error = "Failed to extract text from PDF"
                 /\ r.res.document = NoDocument
                 /\ RowsOf(documents, r.id) = {}

\* An upload failed in the extraction while the other upload of the same
\* file had created its document, which is in the table.
C18_Witness ==
    \E slot \in Slots, other \in Slots :
        /\ reqs[slot].extraction = "failed"
        /\ reqs[slot].res.status = 500
        /\ reqs[other].res.status = 201
        /\ reqs[other].route = "upload"
        /\ reqs[other].file = reqs[slot].file
        /\ RowsOf(documents, reqs[other].id) # {}

\* C19: after an upload that succeeded with a non-empty extracted text the
\* new document has at least one chunk, and its chunks carry the indices
\* 0..n-1 in order.
C19_ChunksStored ==
    \A slot \in Slots :
        LET r == reqs[slot]
        IN (r.pc = "done" /\ r.res.status = 201 /\ r.text # <<>>)
              => LET cs == ChunksOfDocument(r.res.document.id)
                 IN /\ Len(cs) >= 1
                    /\ \A i \in 1..Len(cs) : cs[i].chunkIndex = i - 1

\* C20: an upload for an owner without credential, its file extracted and
\* every store call of it answered, succeeds: the document is created
\* with the extracted page count, and the chunks of its text are stored
\* for it (at least one when the text is not empty), every one with a
\* null embedding.
C20_EmbeddingNeverAborts ==
    \A slot \in Slots :
        LET r == reqs[slot]
        IN (/\ r.pc = "done" /\ r.extraction = "returned"
            /\ r.rejectedCall = ""
            /\ \A u \in 1..Len(users) : users[u].apiKey = Null)
              => /\ r.res.status = 201
                 /\ r.res.document.pageCount = r.pageCount
                 /\ \A i \in RowsOf(documents, r.id) :
                       LET cs == ChunksOfDocument(documents[i].id)
                       IN /\ documents[i].id = r.res.document.id
                          /\ documents[i].pageCount = r.pageCount
                          /\ r.text # <<>> => Len(cs) >= 1
                          /\ \A k \in 1..Len(cs) :
                                cs[k].embedding = EmbNull

(***************************************************************************)
(* Notes: POST /api/notes and DELETE /api/notes/:id.                       *)
(***************************************************************************)
\* JSON.stringify({ type: 'doc', content: [] })
EmptyDocJson ==
    << "{", "\"", "t", "y", "p", "e", "\"", ":", "\"", "d", "o", "c",
       "\"", ",", "\"", "c", "o", "n", "t", "e", "n", "t", "\"", ":",
       "[", "]", "}" >>

ParagraphPrefix ==
    << "{", "\"", "t", "y", "p", "e", "\"", ":", "\"", "d", "o", "c",
       "\"", ",", "\"", "c", "o", "n", "t", "e", "n", "t", "\"", ":",
       "[", "{", "\"", "t", "y", "p", "e", "\"", ":", "\"", "p", "a",
       "r", "a", "g", "r", "a", "p", "h", "\"", ",", "\"", "c", "o",
       "n", "t", "e", "n", "t", "\"", ":", "[", "{", "\"", "t", "y",
       "p", "e", "\"", ":", "\"", "t", "e", "x", "t", "\"", ",", "\"",
       "t", "e", "x", "t", "\"", ":", "\"" >>

ParagraphSuffix ==
    << "\"", "}", "]", "}", "]", "}" >>

\* The body of a JSON string for a text: a double quote or a backslash is
\* escaped by a backslash, letters and spaces stand for themselves.
RECURSIVE jsonEscape(_)
jsonEscape(text) ==
    IF text = <<>> THEN <<>>
    ELSE (IF Head(text) \in {"\"", "\\"} THEN <<"\\", Head(text)>>
          ELSE <<Head(text)>>) \o jsonEscape(Tail(text))

\* JSON.stringify({ type: 'doc', content: [{ type: 'paragraph',
\*                  content: [{ type: 'text', text }] }] })
paragraphDocJson(text) ==
    ParagraphPrefix \o jsonEscape(text) \o ParagraphSuffix

\* JSON.stringify(JSON.parse(trimmed)) for a text made of braces, brackets,
\* letters and white space of at most three characters: it parses exactly
\* when it is {} or [] with white space inside, and is written back
\* without the white space.
jsonRoundTrip(trimmed) ==
    LET compact == Filter(trimmed, [i \in 1..Len(trimmed) |->
                                           ~IsWhitespace(trimmed[i])])
    IN IF compact \in {<<"{", "}">>, <<"[", "]">>}
       THEN [threw |-> FALSE, json |-> compact]
       ELSE [threw |-> TRUE, json |-> <<>>]

\* The content of a body: null, a string, or an object given by its JSON
\* text.
NoteContents ==
    { [type |-> "null", value |-> <<>>],
      [type |-> "string", value |-> <<" ", "h", "i", " ">>],
      [type |-> "string", value |-> <<"{", " ", "}">>],
      [type |-> "string", value |-> <<"{", "h">>],
      [type |-> "object", value |-> EmptyDocJson] }

\* Lines 22-54: the content string stored for the content of a body.
contentStringOf(content) ==
    IF content.type = "null" THEN EmptyDocJson
    ELSE IF content.type = "string"
    THEN LET trimmed == trim(content.value)
         IN IF startsWith(trimmed, <<"{">>) \/ startsWith(trimmed, <<"[">>)
            THEN LET parsed == jsonRoundTrip(trimmed)
                 IN IF parsed.threw THEN trimmed ELSE parsed.json
            ELSE paragraphDocJson(trimmed)
    ELSE content.value

NoteBodies ==
    { [projectId |-> "p1", content |-> c] : c \in NoteContents }
    \cup { [projectId |-> p, content |-> [type |-> "null", value |-> <<>>]] :
              p \in {"", "px"} }

NoNote == [id |-> Null, projectId |-> "", content |-> <<>>, req |-> 0]

NoteNoRes == [status |-> 0, error |-> "", note |-> NoNote]

NoteErrorRes(status, message) ==
    [NoteNoRes EXCEPT !.status = status, !.error = message]

NoteIdleReq ==
    [id |-> 0, pc |-> "idle", projectId |-> "", contentString |-> <<>>,
     existingNote |-> Null, res |-> NoteNoRes]

\* Lines 10-66: the check of the project id, the content string and the
\* check of the project.
noteReceived(r, projectTable) ==
    IF r.projectId = ""
    THEN [r EXCEPT !.pc = "done",
                   !.res = NoteErrorRes(400, "Project ID is required")]
    ELSE IF \A p \in 1..Len(projectTable) : projectTable[p].id # r.projectId
    THEN [r EXCEPT !.pc = "done",
                   !.res = NoteErrorRes(404, "Project not found")]
    ELSE [r EXCEPT !.pc = "find"]

\* Lines 73-93 and the catch of lines 94-100: the note found is updated,
\* which throws when it has been deleted since; without a note found one
\* is created.
noteWritten(noteTable, r) ==
    IF r.existingNote # Null
    THEN LET hits == {i \in 1..Len(noteTable) :
                         noteTable[i].id = r.existingNote}
         IN IF hits = {}
            THEN [notes |-> noteTable,
                  req |-> [r EXCEPT !.pc = "done",
                                    !.res = NoteErrorRes(500,
                                       "Record to update not found.")]]
            ELSE LET i == CHOOSE j \in hits : TRUE
                     note == [noteTable[i] EXCEPT !.content = r.contentString]
                 IN [notes |-> [noteTable EXCEPT ![i] = note],
                     req |-> [r EXCEPT !.pc = "done",
                                       !.res = [NoteNoRes EXCEPT
                                                  !.status = 200,
                                                  !.note = note]]]
    ELSE LET note == [id |-> <<ToString(r.id)>>, projectId |-> r.projectId,
                      content |-> r.contentString, req |-> r.id]
         IN [notes |-> Append(noteTable, note),
             req |-> [r EXCEPT !.pc = "done",
                               !.res = [NoteNoRes EXCEPT !.status = 200,
                                                         !.note = note]]]

(***************************************************************************)
(* SpecNote: the notes routes over a database with two projects, one step  *)
(* per await of the POST handler.                                          *)
(***************************************************************************)
NoteDeleteNoRes == [route |-> "none", id |-> Null, status |-> 0]

InitNote ==
    /\ users = << [id |-> "u1", email |-> "demo@scholarstack.local",
                   apiKey |-> Null] >>
    /\ projects = << [id |-> "p1", userId |-> "u1"],
                     [id |-> "p2", userId |-> "u1"] >>
    /\ documents = <<>>
    /\ chunks = <<>>
    /\ chatSessions = <<>>
    /\ chatMessages = <<>>
    /\ reqs = [slot \in Slots |-> NoteIdleReq]
    /\ nreq = 0
    /\ call = [fn |-> "notes", deletes |-> 0]
    /\ result = NoteDeleteNoRes
    /\ notes = <<>>
    /\ usersTwin = <<>>
    /\ globalPendingHighlights = <<>>
    /\ listeners = {}
    /\ notebook = NotebookUnmounted
    /\ inserted = <<>>

NotePostReceive(slot, body) ==
    /\ reqs[slot].pc \in {"idle", "done"}
    /\ nreq < MaxNotePosts
    /\ nreq' = nreq + 1
    /\ reqs' = [reqs EXCEPT ![slot] =
          noteReceived([NoteIdleReq EXCEPT
                           !.id = nreq + 1,
                           !.projectId = body.projectId,
                           !.contentString = contentStringOf(body.content)],
                       projects)]
    /\ UNCHANGED <<users, projects, documents, chunks, chatSessions,
                   chatMessages, call, result, notes, usersTwin,
                   globalPendingHighlights, listeners, notebook, inserted>>

\* Lines 69-71: prisma.note.findFirst({ where: { projectId } }), without an
\* order: any note of the project may be the one returned.
NotePostFindFirst(slot) ==
    /\ reqs[slot].pc = "find"
    /\ LET mine == {i \in 1..Len(notes) :
                       notes[i].projectId = reqs[slot].projectId}
       IN \/ /\ mine = {}
             /\ reqs' = [reqs EXCEPT ![slot] =
                   [reqs[slot] EXCEPT !.pc = "write", !.existingNote = Null]]
          \/ \E i \in mine :
                reqs' = [reqs EXCEPT ![slot] =
                   [reqs[slot] EXCEPT !.pc = "write",
                                      !.existingNote = notes[i].id]]
    /\ UNCHANGED <<users, projects, documents, chunks, chatSessions,
                   chatMessages, nreq, call, result, notes, usersTwin,
                   globalPendingHighlights, listeners, notebook, inserted>>

NotePostWrite(slot) ==
    /\ reqs[slot].pc = "write"
    /\ LET out == noteWritten(notes, reqs[slot])
       IN /\ notes' = out.notes
          /\ reqs' = [reqs EXCEPT ![slot] = out.req]
    /\ UNCHANGED <<users, projects, documents, chunks, chatSessions,
                   chatMessages, nreq, call, result, usersTwin,
                   globalPendingHighlights, listeners, notebook, inserted>>

\* Lines 141-154: DELETE /api/notes/:id answers 204, or hands the error of
\* prisma to the error middleware.
NoteDelete(id) ==
    /\ call.deletes < MaxNoteDeletes
    /\ call' = [call EXCEPT !.deletes = @ + 1]
    /\ IF \E i \in 1..Len(notes) : notes[i].id = id
       THEN /\ notes' = SelectSeq(notes, LAMBDA n : n.id # id)
            /\ result' = [route |-> "DELETE", id |-> id, status |-> 204]
       ELSE /\ notes' = notes
            /\ result' = [route |-> "DELETE", id |-> id, status |-> 500]
    /\ UNCHANGED <<users, projects, documents, chunks, chatSessions,
                   chatMessages, reqs, nreq, usersTwin,
                   globalPendingHighlights, listeners, notebook, inserted>>

NextNote ==
    \/ \E slot \in Slots :
          \/ \E body \in NoteBodies : NotePostReceive(slot, body)
          \/ NotePostFindFirst(slot)
          \/ NotePostWrite(slot)
    \/ \E id \in {notes[i].id : i \in 1..Len(notes)} \cup {<<"0">>} :
          NoteDelete(id)

SpecNote == InitNote /\ [][NextNote]_vars

NotesOfProject(projectId) ==
    {i \in 1..Len(notes) : notes[i].projectId = projectId}

\* C24: at most one note exists for a project, and a POST that has found a
\* note answers 200 with that note's id and its own content, and has
\* created no note.
C24_OneNotePerProject ==
    /\ \A p \in 1..Len(projects) :
          Cardinality(NotesOfProject(projects[p].id)) <= 1
    /\ \A slot \in Slots :
          LET r == reqs[slot]
          IN (r.pc = "done" /\ r.res.status = 200 /\ r.existingNote # Null)
                => /\ r.res.note.id = r.existingNote
                   /\ r.res.note.content = r.contentString
                   /\ \A i \in 1..Len(notes) : notes[i].req # r.id

(***************************************************************************)
(* Highlight hand-off: the module-level list and listeners of the          *)
(* highlight hooks, and the two effects of the Notebook component.         *)
(***************************************************************************)
HighlightTexts == {<<"a">>, <<"b">>}

HighlightTags == {"evidence", "note"}

\* tagColors[highlight.tag] || '#6366f1'
colorOf(tag) ==
    IF tag = "evidence" THEN "#22c55e"
    ELSE IF tag = "critique" THEN "#f97316"
    ELSE IF tag = "question" THEN "#3b82f6"
    ELSE IF tag = "highlight" THEN "#eab308"
    ELSE "#6366f1"

\* Date.now() at a call of addHighlight: the millisecond of the previous
\* call or a later one.
Timestamps(last) == IF last = 0 THEN {1} ELSE {last, last + 1}

\* pendingHighlights.filter(h => !processedHighlightsRef.current.has(
\*     h.timestamp))
newHighlightsOf(pendingHighlights, processed) ==
    SelectSeq(pendingHighlights, LAMBDA h : h.timestamp \notin processed)

\* The content that the effect inserts into the editor for a highlight.
insertedContent(h, mount) ==
    [text |-> h.text, tagText |-> <<" #[", h.tag, "]">>,
     color |-> colorOf(h.tag), n |-> h.n, mount |-> mount]

\* call counts the calls of addHighlight and keeps the clock of the last
\* one; result is what the last call of a consumer returned.
InitHl ==
    /\ DbIdle
    /\ documents = <<>>
    /\ chunks = <<>>
    /\ call = [fn |-> "addHighlight", added |-> 0, now |-> 0]
    /\ result = [state |-> "none", consumed |-> <<>>]

\* Lines 30-41 of the hooks: the highlight is pushed on the module's list
\* and every listener is called with a copy of the list; the listener of
\* the Notebook sets its state, which schedules its effect.
AddHighlight(text, tag) ==
    /\ call.added < MaxHighlights
    /\ \E now \in Timestamps(call.now) :
          LET highlight == [text |-> text, tag |-> tag, timestamp |-> now,
                            n |-> call.added + 1]
              pushed == Append(globalPendingHighlights, highlight)
          IN /\ globalPendingHighlights' = pushed
             /\ call' = [call EXCEPT !.added = @ + 1, !.now = now]
             /\ notebook' =
                   IF notebook.mounted /\ notebook.listener \in listeners
                   THEN [notebook EXCEPT !.pendingHighlights = pushed,
                                         !.effectPending = TRUE]
                   ELSE notebook
    /\ UNCHANGED <<users, projects, documents, chunks, chatSessions,
                   chatMessages, reqs, nreq, result, notes, usersTwin,
                   listeners, inserted>>

\* The body that consumeHighlights and consume share: the module's list
\* is emptied and every listener is called with an empty list; the
\* listener of the Notebook sets its state, which schedules its effect.
notebookEmptied(nb, listenerSet) ==
    IF nb.mounted /\ nb.listener \in listenerSet
    THEN [nb EXCEPT !.pendingHighlights = <<>>, !.effectPending = TRUE]
    ELSE nb

\* Lines 43-48: consumeHighlights of useNotebookHighlights returns a copy
\* of the list it empties.
ConsumeHighlights ==
    /\ result' = [state |-> "consumeHighlights",
                  consumed |-> globalPendingHighlights]
    /\ globalPendingHighlights' = <<>>
    /\ notebook' = notebookEmptied(notebook, listeners)
    /\ UNCHANGED <<users, projects, documents, chunks, chatSessions,
                   chatMessages, reqs, nreq, call, notes, usersTwin,
                   listeners, inserted>>

\* Lines 75-80: consume of useNotebookConsumer, the same body.
Consume ==
    /\ result' = [state |-> "consume",
                  consumed |-> globalPendingHighlights]
    /\ globalPendingHighlights' = <<>>
    /\ notebook' = notebookEmptied(notebook, listeners)
    /\ UNCHANGED <<users, projects, documents, chunks, chatSessions,
                   chatMessages, reqs, nreq, call, notes, usersTwin,
                   listeners, inserted>>

\* The Notebook is mounted: a new processedHighlightsRef, and the effect
\* of lines 159-162 subscribes, which adds a listener and sets the state
\* to a copy of the module's list.
NotebookMount ==
    /\ ~notebook.mounted
    /\ notebook.listener < MaxMounts
    /\ listeners' = listeners \cup {notebook.listener + 1}
    /\ notebook' = [mounted |-> TRUE, listener |-> notebook.listener + 1,
                    pendingHighlights |-> globalPendingHighlights,
                    processedHighlights |-> {},
                    effectPending |-> TRUE]
    /\ UNCHANGED <<users, projects, documents, chunks, chatSessions,
                   chatMessages, reqs, nreq, call, result, notes, usersTwin,
                   globalPendingHighlights, inserted>>

\* Lines 165-204: the effect on pendingHighlights.
NotebookEffect ==
    /\ notebook.mounted
    /\ notebook.effectPending
    /\ LET newHighlights == newHighlightsOf(notebook.pendingHighlights,
                                            notebook.processedHighlights)
       IN /\ inserted' = inserted \o
                [i \in 1..Len(newHighlights) |->
                    insertedContent(newHighlights[i], notebook.listener)]
          /\ notebook' = [notebook EXCEPT
                !.effectPending = FALSE,
                !.processedHighlights =
                    @ \cup {newHighlights[i].timestamp :
                               i \in 1..Len(newHighlights)}]
    /\ UNCHANGED <<users, projects, documents, chunks, chatSessions,
                   chatMessages, reqs, nreq, call, result, notes, usersTwin,
                   globalPendingHighlights, listeners>>

\* The Notebook is unmounted: the cleanup of the effect of lines 159-162
\* deletes the listener, the component's state and ref are gone.
NotebookUnmount ==
    /\ notebook.mounted
    /\ listeners' = listeners \ {notebook.listener}
    /\ notebook' = [NotebookUnmounted EXCEPT !.listener = notebook.listener]
    /\ UNCHANGED <<users, projects, documents, chunks, chatSessions,
                   chatMessages, reqs, nreq, call, result, notes, usersTwin,
                   globalPendingHighlights, inserted>>

NextHl ==
    \/ \E text \in HighlightTexts, tag \in HighlightTags :
          AddHighlight(text, tag)
    \/ ConsumeHighlights
    \/ Consume
    \/ NotebookMount
    \/ NotebookEffect
    \/ NotebookUnmount

SpecHl == InitHl /\ [][NextHl]_vars

InsertionsOf(n) == {i \in 1..Len(inserted) : inserted[i].n = n}

\* No highlight is inserted twice, over all mounts of the Notebook.
AtMostOnce ==
    \A i \in 1..Len(globalPendingHighlights) :
        Cardinality(InsertionsOf(globalPendingHighlights[i].n)) <= 1

\* Once the effect of a mounted Notebook has run on a list, every
\* highlight of that list has been inserted.
NoneDropped ==
    (notebook.mounted /\ ~notebook.effectPending)
        => \A i \in 1..Len(notebook.pendingHighlights) :
              InsertionsOf(notebook.pendingHighlights[i].n) # {}

\* C30: every highlight added is inserted into an editor at most once over
\* all mounts of the Notebook, and two highlights added at different calls
\* are both inserted, whatever their timestamps.
C30_ExactlyOnce == AtMostOnce /\ NoneDropped

====
